---- MODULE Spec2Model ----
(***************************************************************************)
(* Canvas3D: the validation -> reachability gate -> transactional build    *)
(* pipeline (spec_validation.py, traversability.py, spec_executor.py,      *)
(* cleanup.py, orchestrator.py), as a state machine.                       *)
(*                                                                         *)
(* Documents are JSON values.  A JSON value is a tagged record; the Python *)
(* predicates the code applies to it (isinstance, truthiness, hashing,     *)
(* dict.get) are operators over that encoding.                             *)
(***************************************************************************)
EXTENDS Integers, Sequences, FiniteSets, TLC

VARIABLES
    vdoc,      \* validator harness: the document handed to validate_scene_spec
    vedits,    \* validator harness: what was changed in vdoc ([rem, def, typ])
    vres,      \* validator harness: outcome of the last validate_scene_spec call
    tq,        \* traversability harness: the grid problem or document queried
    tres,      \* traversability harness: what the queried function returned
    builds,    \* executor calls between their snapshot and their commit or rollback
    world,     \* bpy.data: names alive per category, collection membership
    rng,       \* state of the process-wide random source
    host,      \* TRUE when the bpy module is importable
    timers,    \* bpy.app.timers: callbacks registered and not yet run
    variants,  \* orchestrator._variants_map: the stored variant bundle
    last,      \* record of the last call (history)
    trace,     \* stages run by the invocation the last call belongs to
    calls      \* number of calls made so far

vars == <<vdoc, vedits, vres, tq, tres, builds, world, rng, host, timers, variants, last, trace, calls>>

-----------------------------------------------------------------------------
(* JSON values and the Python view of them                                  *)

JNull == [t |-> "null"]
JBool(b) == [t |-> "bool", b |-> b]
JInt(n) == [t |-> "int", n |-> n]
\* a float, held in hundredths: JFloat(150) is 1.5
JFloat(h) == [t |-> "float", h |-> h]
JStr(s) == [t |-> "str", s |-> s]
JArr(a) == [t |-> "arr", a |-> a]
JObj(o) == [t |-> "obj", o |-> o]

\* the empty dict and dict literals
EmptyMap == [k \in {} |-> JNull]
JEmptyObj == JObj(EmptyMap)

IsNone(v) == v.t = "null"
IsStr(v) == v.t = "str"
\* isinstance(x, int): Python's bool is a subclass of int
IsInt(v) == v.t \in {"int", "bool"}
\* isinstance(x, (int, float))
IsNum(v) == v.t \in {"int", "bool", "float"}
IsBool(v) == v.t = "bool"
IsDict(v) == v.t = "obj"
IsList(v) == v.t = "arr"

\* type(value).__name__
TypeOf(v) ==
    CASE v.t = "null" -> "NoneType"
      [] v.t = "bool" -> "bool"
      [] v.t = "int" -> "int"
      [] v.t = "float" -> "float"
      [] v.t = "str" -> "str"
      [] v.t = "arr" -> "list"
      [] OTHER -> "dict"

\* bool(value)
Truthy(v) ==
    CASE v.t = "null" -> FALSE
      [] v.t = "bool" -> v.b
      [] v.t = "int" -> v.n # 0
      [] v.t = "float" -> v.h # 0
      [] v.t = "str" -> v.s # ""
      [] v.t = "arr" -> Len(v.a) > 0
      [] OTHER -> DOMAIN v.o # {}

\* hash(value) succeeds: lists and dicts are unhashable
Hashable(v) == v.t \notin {"arr", "obj"}

\* int value of an int or bool
IntVal(v) == IF v.t = "bool" THEN (IF v.b THEN 1 ELSE 0) ELSE v.n

\* float(value) of a number, in hundredths
Num100(v) == IF v.t = "float" THEN v.h ELSE 100 * IntVal(v)

\* int(value): the strings of the model are not numerals, so int(str) raises
IntConvertible(v) == v.t \in {"int", "bool", "float"}
IntOf(v) ==
    IF v.t = "float" THEN (IF v.h < 0 THEN 0 - ((0 - v.h) \div 100) ELSE v.h \div 100)
    ELSE IntVal(v)

\* k in d
Has(d, k) == k \in DOMAIN d.o
\* d.get(k): None when the key is absent
Get(d, k) == IF k \in DOMAIN d.o THEN d.o[k] ELSE JNull
\* d.get(k, default)
GetD(d, k, dflt) == IF k \in DOMAIN d.o THEN d.o[k] ELSE dflt
\* value or {}
OrEmpty(v) == IF Truthy(v) THEN v ELSE JEmptyObj
\* value or []
OrEmptyList(v) == IF Truthy(v) THEN v ELSE JArr(<<>>)
\* d with key k set to v / with key k removed
Put(d, k, v) == JObj([x \in (DOMAIN d.o) \cup {k} |-> IF x = k THEN v ELSE d.o[x]])
Del(d, k) == JObj([x \in (DOMAIN d.o) \ {k} |-> d.o[x]])

-----------------------------------------------------------------------------
(* Strings: the characters of the strings that reach a regular expression   *)

Digits == {"0", "1", "2", "3", "4", "5", "6", "7", "8", "9"}
AsciiSafeChars ==
    Digits \cup {"a", "b", "c", "d", "m", "p", "r", "x", "A", "_", "-"}

\* the characters of a string ("\n" is the line feed)
Chars(s) ==
    CASE s = "" -> <<>>
      [] s = " " -> <<" ">>
      [] s = "x" -> <<"x">>
      [] s = "a" -> <<"a">>
      [] s = "b" -> <<"b">>
      [] s = "d" -> <<"d">>
      [] s = "p" -> <<"p">>
      [] s = "m" -> <<"m">>
      [] s = "c" -> <<"c">>
      [] s = "a b" -> <<"a", " ", "b">>
      [] s = "a\n" -> <<"a", "\n">>
      [] s = "1.0.0" -> <<"1", ".", "0", ".", "0">>
      [] s = "2.0.0" -> <<"2", ".", "0", ".", "0">>
      [] s = "1.0" -> <<"1", ".", "0">>
      [] OTHER -> <<"?">>

\* s.strip() is non-empty
StripNonEmpty(s) == \E i \in 1..Len(Chars(s)) : Chars(s)[i] \notin {" ", "\n"}

\* '$' also matches just before a trailing line feed
BeforeEnd(cs) ==
    IF Len(cs) > 0 /\ cs[Len(cs)] = "\n" THEN {cs, SubSeq(cs, 1, Len(cs) - 1)} ELSE {cs}

\* ASCII_SAFE_PATTERN.match(s): ^[a-zA-Z0-9_\-]+$
AsciiSafeMatch(s) ==
    \E body \in BeforeEnd(Chars(s)) :
        /\ Len(body) > 0
        /\ \A i \in 1..Len(body) : body[i] \in AsciiSafeChars

AllDigits(cs) == Len(cs) > 0 /\ \A i \in 1..Len(cs) : cs[i] \in Digits

\* VERSION_PATTERN.match(s): ^[0-9]+\.[0-9]+\.[0-9]+$
VersionMatch(s) ==
    \E body \in BeforeEnd(Chars(s)) :
        \E i, j \in 1..Len(body) :
            /\ i < j
            /\ body[i] = "." /\ body[j] = "."
            /\ AllDigits(SubSeq(body, 1, i - 1))
            /\ AllDigits(SubSeq(body, i + 1, j - 1))
            /\ AllDigits(SubSeq(body, j + 1, Len(body)))

\* s.lower()
Lower(s) ==
    CASE s = "Procedural_Dungeon" -> "procedural_dungeon"
      [] s = "Door" -> "door"
      [] OTHER -> s

\* str(value) of a JSON value, as far as the code compares it
StrOf(v) == IF v.t = "str" THEN v.s ELSE TypeOf(v)

-----------------------------------------------------------------------------
(* spec_validation.py                                                       *)

ALLOWED_DOMAINS == {"procedural_dungeon", "film_interior"}
UNITS_ALLOWED == {"meters"}
OBJECT_TYPES ==
    {"cube", "plane", "cylinder", "corridor_segment", "room", "door", "stair", "prop_instance"}
LIGHT_TYPES == {"sun", "point", "area", "spot"}
QUALITY_MODES == {"lite", "balanced", "high"}
COLLECTION_PURPOSE == {"geometry", "props", "lighting", "physics"}
RequiredKeys == <<"version", "domain", "seed", "objects", "lighting", "camera">>
Directions == {"north", "south", "east", "west"}

\* ValidationIssue(path, message, code); a path is its list of segments and a
\* message its fixed text followed by the values interpolated into it
ValidationIssue(path, msg, code) == [path |-> path, msg |-> msg, code |-> code]

\* _require(cond, issues, path, msg, code): the issues it appends
Require(cond, path, msg, code) ==
    IF cond THEN <<>> ELSE <<ValidationIssue(path, msg, code)>>

\* the segment "[i]" of the i-th element (Python index i - 1)
Idx(i) == <<"[0]", "[1]", "[2]", "[3]", "[4]">>[i]

\* concatenation of F[1] .. F[n]
RECURSIVE CatUpTo(_, _)
CatUpTo(F, n) == IF n = 0 THEN <<>> ELSE CatUpTo(F, n - 1) \o F[n]

\* the issues of every element of a list, in order
ForEach(arr, Body(_, _)) == CatUpTo([i \in 1..Len(arr) |-> Body(i, arr[i])], Len(arr))

\* _is_vec3(value)
IsVec3(v) == IsList(v) /\ Len(v.a) = 3 /\ \A i \in 1..3 : IsNum(v.a[i])

\* all(0.0 <= float(x) <= 1.0 for x in v)
AllUnit(v) == \A i \in 1..Len(v.a) : 0 <= Num100(v.a[i]) /\ Num100(v.a[i]) <= 100

\* an optional field: checked only when it is not None
Opt(v, issues) == IF IsNone(v) THEN <<>> ELSE issues

ValidateVersion(spec, expect) ==
    LET version == Get(spec, "version") IN
    Opt(version,
        Require(IsStr(version), <<"$", "version">>, <<"version must be string, got:", TypeOf(version)>>, "type")
        \o (IF IsStr(version)
            THEN Require(VersionMatch(version.s), <<"$", "version">>, <<"version must match N.N.N">>, "format")
                 \o (IF expect # "None"
                     THEN Require(version.s = expect, <<"$", "version">>, <<"expected version", expect>>, "mismatch")
                     ELSE <<>>)
            ELSE <<>>))

ValidateDomain(spec) ==
    LET domain == Get(spec, "domain") IN
    Opt(domain,
        Require(IsStr(domain), <<"$", "domain">>, <<"domain must be string, got:", TypeOf(domain)>>, "type")
        \o (IF IsStr(domain)
            THEN Require(domain.s \in ALLOWED_DOMAINS, <<"$", "domain">>, <<"domain must be one of">>, "enum")
            ELSE <<>>))

\* units in UNITS_ALLOWED (the caller has excluded the unhashable values)
ValidateUnits(spec) ==
    LET units == GetD(spec, "units", JStr("meters")) IN
    Require(IsStr(units) /\ units.s \in UNITS_ALLOWED, <<"$", "units">>, <<"units must be 'meters'">>, "enum")

ValidateSeed(spec) ==
    LET seed == Get(spec, "seed") IN
    Opt(seed,
        Require(IsInt(seed), <<"$", "seed">>, <<"seed must be integer, got:", TypeOf(seed)>>, "type")
        \o (IF IsInt(seed)
            THEN Require(IntVal(seed) >= 0, <<"$", "seed">>, <<"seed must be >= 0">>, "minimum")
            ELSE <<>>))

ValidateMetadata(meta) ==
    Require(IsDict(meta), <<"$", "metadata">>, <<"metadata must be object, got:", TypeOf(meta)>>, "type")
    \o (IF ~IsDict(meta) THEN <<>> ELSE
        LET qm == GetD(meta, "quality_mode", JStr("balanced"))
            hp == Get(meta, "hardware_profile")
            notes == Get(meta, "notes")
        IN  Opt(qm,
                Require(IsStr(qm), <<"$", "metadata", "quality_mode">>, <<"quality_mode must be string, got:", TypeOf(qm)>>, "type")
                \o (IF IsStr(qm)
                    THEN Require(qm.s \in QUALITY_MODES, <<"$", "metadata", "quality_mode">>, <<"quality_mode must be one of">>, "enum")
                    ELSE <<>>))
            \o Opt(hp, Require(IsStr(hp), <<"$", "metadata", "hardware_profile">>, <<"hardware_profile must be string, got:", TypeOf(hp)>>, "type"))
            \o Opt(notes, Require(IsStr(notes), <<"$", "metadata", "notes">>, <<"notes must be string, got:", TypeOf(notes)>>, "type")))

ValidateGrid(grid) ==
    Require(IsDict(grid), <<"$", "grid">>, <<"grid must be object, got:", TypeOf(grid)>>, "type")
    \o (IF ~IsDict(grid) THEN <<>> ELSE
        LET cs == Get(grid, "cell_size_m")
            dims == Get(grid, "dimensions")
            Dim(name) ==
                LET d == Get(dims, name) IN
                Require(IsInt(d), <<"$", "grid", "dimensions", name>>, <<name, "must be integer, got:", TypeOf(d)>>, "type")
            DimRange(name) ==
                LET d == Get(dims, name) IN
                IF IsInt(d)
                THEN Require(5 <= IntVal(d) /\ IntVal(d) <= 200, <<"$", "grid", "dimensions", name>>, <<name, "must be in [5, 200]">>, "range")
                ELSE <<>>
        IN  Require(Has(grid, "cell_size_m"), <<"$", "grid">>, <<"Missing required field:", "cell_size_m">>, "required")
            \o Require(Has(grid, "dimensions"), <<"$", "grid">>, <<"Missing required field:", "dimensions">>, "required")
            \o Opt(cs,
                Require(IsNum(cs), <<"$", "grid", "cell_size_m">>, <<"cell_size_m must be number, got:", TypeOf(cs)>>, "type")
                \o (IF IsNum(cs)
                    THEN Require(25 <= Num100(cs) /\ Num100(cs) <= 500, <<"$", "grid", "cell_size_m">>, <<"cell_size_m must be in [0.25, 5.0]">>, "range")
                    ELSE <<>>))
            \o Require(IsDict(dims), <<"$", "grid", "dimensions">>, <<"dimensions must be object, got:", TypeOf(dims)>>, "type")
            \o (IF IsDict(dims)
                THEN Dim("cols") \o Dim("rows") \o DimRange("cols") \o DimRange("rows")
                ELSE <<>>))

\* the names collected by a name loop are not all different
HasDuplicates(names) == Len(names) > 0 /\ Len(names) # Cardinality({names[i] : i \in 1..Len(names)})

\* names.append(name) of the elements that carry a usable name
RECURSIVE NamesOf(_, _, _)
NamesOf(arr, key, n) ==
    IF n = 0 THEN <<>>
    ELSE LET e == arr[n]
             nm == IF IsDict(e) THEN Get(e, key) ELSE JNull
         IN  NamesOf(arr, key, n - 1)
             \o (IF IsStr(nm) /\ StripNonEmpty(nm.s) THEN <<nm.s>> ELSE <<>>)

ValidatePbr(p, pbr) ==
    Require(IsDict(pbr), p \o <<"pbr">>, <<"pbr must be object, got:", TypeOf(pbr)>>, "type")
    \o (IF ~IsDict(pbr) THEN <<>> ELSE
        LET bc == Get(pbr, "base_color")
            nt == Get(pbr, "normal_tex")
            bcOk == IsList(bc) /\ Len(bc.a) = 3 /\ \A i \in 1..3 : IsNum(bc.a[i])
            Unit(fld) ==
                LET val == Get(pbr, fld) IN
                Opt(val,
                    Require(IsNum(val), p \o <<"pbr", fld>>, <<fld, "must be number">>, "type")
                    \o (IF IsNum(val)
                        THEN Require(0 <= Num100(val) /\ Num100(val) <= 100, p \o <<"pbr", fld>>, <<fld, "must be in [0,1]">>, "range")
                        ELSE <<>>))
        IN  Opt(bc,
                Require(bcOk, p \o <<"pbr", "base_color">>, <<"base_color must be [r,g,b] numbers">>, "type")
                \o (IF bcOk
                    THEN Require(AllUnit(bc), p \o <<"pbr", "base_color">>, <<"base_color components must be in [0,1]">>, "range")
                    ELSE <<>>))
            \o Unit("metallic") \o Unit("roughness")
            \o Opt(nt, Require(IsStr(nt), p \o <<"pbr", "normal_tex">>, <<"normal_tex must be string (path/identifier)">>, "type")))

ValidateMaterial(i, m) ==
    LET p == <<"$", "materials", Idx(i)>> IN
    Require(IsDict(m), p, <<"material must be object, got:", TypeOf(m)>>, "type")
    \o (IF ~IsDict(m) THEN <<>> ELSE
        LET name == Get(m, "name")
            named == IsStr(name) /\ StripNonEmpty(name.s)
        IN  Require(named, p \o <<"name">>, <<"material.name must be non-empty string">>, "required")
            \o (IF named
                THEN Require(AsciiSafeMatch(name.s), p \o <<"name">>, <<"material.name must be ASCII-safe">>, "ascii")
                ELSE <<>>)
            \o Opt(Get(m, "pbr"), ValidatePbr(p, Get(m, "pbr"))))

ValidateMaterials(materials) ==
    Require(IsList(materials), <<"$", "materials">>, <<"materials must be array, got:", TypeOf(materials)>>, "type")
    \o (IF ~IsList(materials) THEN <<>> ELSE
        ForEach(materials.a, ValidateMaterial)
        \o (IF HasDuplicates(NamesOf(materials.a, "name", Len(materials.a)))
            THEN <<ValidationIssue(<<"$", "materials">>, <<"material names must be unique">>, "unique")>>
            ELSE <<>>))

ValidateCollection(i, c) ==
    LET p == <<"$", "collections", Idx(i)>> IN
    Require(IsDict(c), p, <<"collection must be object, got:", TypeOf(c)>>, "type")
    \o (IF ~IsDict(c) THEN <<>> ELSE
        LET name == Get(c, "name")
            named == IsStr(name) /\ StripNonEmpty(name.s)
            purpose == Get(c, "purpose")
        IN  Require(named, p \o <<"name">>, <<"collection.name must be non-empty string">>, "required")
            \o (IF named
                THEN Require(AsciiSafeMatch(name.s), p \o <<"name">>, <<"collection.name must be ASCII-safe">>, "ascii")
                ELSE <<>>)
            \o Opt(purpose,
                Require(IsStr(purpose), p \o <<"purpose">>, <<"purpose must be string, got:", TypeOf(purpose)>>, "type")
                \o (IF IsStr(purpose)
                    THEN Require(purpose.s \in COLLECTION_PURPOSE, p \o <<"purpose">>, <<"purpose must be one of">>, "enum")
                    ELSE <<>>)))

ValidateCollections(collections) ==
    Require(IsList(collections), <<"$", "collections">>, <<"collections must be array, got:", TypeOf(collections)>>, "type")
    \o (IF ~IsList(collections) THEN <<>> ELSE
        ForEach(collections.a, ValidateCollection)
        \o (IF HasDuplicates(NamesOf(collections.a, "name", Len(collections.a)))
            THEN <<ValidationIssue(<<"$", "collections">>, <<"collection names must be unique">>, "unique")>>
            ELSE <<>>))

\* the id of an element when _validate_objects would record it, else None
NamedId(o) ==
    LET oid == IF IsDict(o) THEN Get(o, "id") ELSE JNull IN
    IF IsStr(oid) /\ StripNonEmpty(oid.s) THEN oid ELSE JNull

\* oid in seen: an earlier element recorded the same ASCII-safe id
SeenBefore(arr, i, oid) ==
    \E j \in 1..(i - 1) :
        /\ NamedId(arr[j]) = oid
        /\ AsciiSafeMatch(oid.s)

ValidateObject(arr, i, o) ==
    LET p == <<"$", "objects", Idx(i)>> IN
    Require(IsDict(o), p, <<"object must be object, got:", TypeOf(o)>>, "type")
    \o (IF ~IsDict(o) THEN <<>> ELSE
        LET oid == Get(o, "id")
            named == IsStr(oid) /\ StripNonEmpty(oid.s)
            otype == Get(o, "type")
            gc == Get(o, "grid_cell")
            mat == Get(o, "material")
            coln == Get(o, "collection")
            props == Get(o, "properties")
            Vec(fld, msg) ==
                Opt(Get(o, fld), Require(IsVec3(Get(o, fld)), p \o <<fld>>, <<msg>>, "type"))
            Cell(fld) ==
                Require(IsInt(Get(gc, fld)), p \o <<"grid_cell", fld>>,
                        <<"grid_cell must be integer, got:", fld, TypeOf(Get(gc, fld))>>, "type")
        IN  Require(named, p \o <<"id">>, <<"object.id must be non-empty string">>, "required")
            \o (IF named
                THEN Require(AsciiSafeMatch(oid.s), p \o <<"id">>, <<"object.id must be ASCII-safe">>, "ascii")
                     \o (IF AsciiSafeMatch(oid.s) /\ SeenBefore(arr, i, oid)
                         THEN <<ValidationIssue(<<"$", "objects">>, <<"object ids must be unique">>, "unique")>>
                         ELSE <<>>)
                ELSE <<>>)
            \o Require(IsStr(otype), p \o <<"type">>, <<"object.type must be string, got:", TypeOf(otype)>>, "type")
            \o (IF IsStr(otype)
                THEN Require(otype.s \in OBJECT_TYPES, p \o <<"type">>, <<"object.type must be one of">>, "enum")
                ELSE <<>>)
            \o Vec("position", "position must be [x,y,z] numbers")
            \o Vec("rotation_euler", "rotation_euler must be [rx,ry,rz] numbers")
            \o Vec("scale", "scale must be [sx,sy,sz] numbers")
            \o Opt(gc,
                Require(IsDict(gc), p \o <<"grid_cell">>, <<"grid_cell must be object, got:", TypeOf(gc)>>, "type")
                \o (IF IsDict(gc) THEN Cell("col") \o Cell("row") ELSE <<>>))
            \o Opt(mat, Require(IsStr(mat), p \o <<"material">>, <<"material must be string, got:", TypeOf(mat)>>, "type"))
            \o Opt(coln, Require(IsStr(coln), p \o <<"collection">>, <<"collection must be string, got:", TypeOf(coln)>>, "type"))
            \o Opt(props, Require(IsDict(props), p \o <<"properties">>, <<"properties must be object, got:", TypeOf(props)>>, "type")))

ValidateObjects(objects) ==
    Require(IsList(objects), <<"$", "objects">>, <<"objects must be array, got:", TypeOf(objects)>>, "type")
    \o (IF ~IsList(objects) THEN <<>> ELSE
        LET Body(i, o) == ValidateObject(objects.a, i, o) IN
        ForEach(objects.a, Body)
        \o (IF HasDuplicates(NamesOf(objects.a, "id", Len(objects.a)))
            THEN <<ValidationIssue(<<"$", "objects">>, <<"object ids must be unique">>, "unique")>>
            ELSE <<>>))

ValidateLight(i, L) ==
    LET p == <<"$", "lighting", Idx(i)>> IN
    Require(IsDict(L), p, <<"light must be object, got:", TypeOf(L)>>, "type")
    \o (IF ~IsDict(L) THEN <<>> ELSE
        LET ltype == Get(L, "type")
            rot == Get(L, "rotation_euler")
            intensity == Get(L, "intensity")
            color == GetD(L, "color_rgb", JArr(<<JFloat(100), JFloat(100), JFloat(100)>>))
            colorOk == IsList(color) /\ Len(color.a) = 3 /\ \A k \in 1..3 : IsNum(color.a[k])
        IN  Require(IsStr(ltype), p \o <<"type">>, <<"type must be string, got:", TypeOf(ltype)>>, "type")
            \o (IF IsStr(ltype)
                THEN Require(ltype.s \in LIGHT_TYPES, p \o <<"type">>, <<"type must be one of">>, "enum")
                ELSE <<>>)
            \o Require(IsVec3(Get(L, "position")), p \o <<"position">>, <<"position must be [x,y,z] numbers">>, "type")
            \o Opt(rot, Require(IsVec3(rot), p \o <<"rotation_euler">>, <<"rotation_euler must be [rx,ry,rz] numbers">>, "type"))
            \o Require(IsNum(intensity), p \o <<"intensity">>, <<"intensity must be number, got:", TypeOf(intensity)>>, "type")
            \o (IF IsNum(intensity)
                THEN Require(0 <= Num100(intensity) /\ Num100(intensity) <= 1000000, p \o <<"intensity">>, <<"intensity must be in [0, 10000]">>, "range")
                ELSE <<>>)
            \o Require(colorOk, p \o <<"color_rgb">>, <<"color_rgb must be [r,g,b] numbers">>, "type")
            \o (IF colorOk
                THEN Require(AllUnit(color), p \o <<"color_rgb">>, <<"color_rgb components must be in [0,1]">>, "range")
                ELSE <<>>))

ValidateLighting(lights) ==
    Require(IsList(lights), <<"$", "lighting">>, <<"lighting must be array, got:", TypeOf(lights)>>, "type")
    \o (IF ~IsList(lights) THEN <<>> ELSE
        Require(Len(lights.a) >= 1, <<"$", "lighting">>, <<"lighting must contain at least one light">>, "minItems")
        \o ForEach(lights.a, ValidateLight))

ValidateCamera(cam) ==
    Require(IsDict(cam), <<"$", "camera">>, <<"camera must be object, got:", TypeOf(cam)>>, "type")
    \o (IF ~IsDict(cam) THEN <<>> ELSE
        LET fov == GetD(cam, "fov_deg", JFloat(6000)) IN
        Require(IsVec3(Get(cam, "position")), <<"$", "camera", "position">>, <<"position must be [x,y,z] numbers">>, "type")
        \o Require(IsVec3(Get(cam, "rotation_euler")), <<"$", "camera", "rotation_euler">>, <<"rotation_euler must be [rx,ry,rz] numbers">>, "type")
        \o Require(IsNum(fov), <<"$", "camera", "fov_deg">>, <<"fov_deg must be number, got:", TypeOf(fov)>>, "type")
        \o (IF IsNum(fov)
            THEN Require(2000 <= Num100(fov) /\ Num100(fov) <= 12000, <<"$", "camera", "fov_deg">>, <<"fov_deg must be in [20, 120]">>, "range")
            ELSE <<>>))

ValidateConstraints(cons) ==
    Require(IsDict(cons), <<"$", "constraints">>, <<"constraints must be object, got:", TypeOf(cons)>>, "type")
    \o (IF ~IsDict(cons) THEN <<>> ELSE
        LET mpl == Get(cons, "min_path_length_cells")
            rtg == GetD(cons, "require_traversable_start_to_goal", JBool(TRUE))
            mp == Get(cons, "max_polycount")
        IN  Opt(mpl,
                Require(IsInt(mpl), <<"$", "constraints", "min_path_length_cells">>, <<"min_path_length_cells must be integer, got:", TypeOf(mpl)>>, "type")
                \o (IF IsInt(mpl)
                    THEN Require(IntVal(mpl) >= 5, <<"$", "constraints", "min_path_length_cells">>, <<"min_path_length_cells must be >= 5">>, "minimum")
                    ELSE <<>>))
            \o Require(IsBool(rtg), <<"$", "constraints", "require_traversable_start_to_goal">>, <<"require_traversable_start_to_goal must be boolean, got:", TypeOf(rtg)>>, "type")
            \o Opt(mp,
                Require(IsInt(mp), <<"$", "constraints", "max_polycount">>, <<"max_polycount must be integer, got:", TypeOf(mp)>>, "type")
                \o (IF IsInt(mp)
                    THEN Require(IntVal(mp) >= 1000, <<"$", "constraints", "max_polycount">>, <<"max_polycount must be >= 1000">>, "minimum")
                    ELSE <<>>)))

\* str(o.get("type", "")).lower()
TypeLower(o) == Lower(StrOf(GetD(o, "type", JStr(""))))

\* o carries integer grid_cell.col and grid_cell.row (a cell the adjacency
\* check can use); anything else is skipped by the loops' try/except
HasCell(o) ==
    /\ IsDict(o)
    /\ LET gc == OrEmpty(GetD(o, "grid_cell", JEmptyObj)) IN
       IsDict(gc) /\ IsInt(Get(gc, "col")) /\ IsInt(Get(gc, "row"))

CellOf(o) ==
    LET gc == OrEmpty(GetD(o, "grid_cell", JEmptyObj)) IN
    <<IntVal(Get(gc, "col")), IntVal(Get(gc, "row"))>>

\* _neighbors(c, r) of the cross-field check
Neighbors(c) == {<<c[1] + 1, c[2]>>, <<c[1] - 1, c[2]>>, <<c[1], c[2] + 1>>, <<c[1], c[2] - 1>>}

\* room_cells | corridor_cells
StructureCells(arr) ==
    {CellOf(arr[j]) : j \in {k \in 1..Len(arr) :
        HasCell(arr[k]) /\ TypeLower(arr[k]) \in {"room", "corridor_segment"}}}

CrossDoor(arr, i, o) ==
    IF IsDict(o) /\ TypeLower(o) = "door" /\ HasCell(o)
       /\ CellOf(o) \notin StructureCells(arr)
       /\ Neighbors(CellOf(o)) \cap StructureCells(arr) = {}
    THEN <<ValidationIssue(<<"$", "objects", Idx(i)>>,
                           <<"Door must be adjacent to a room or corridor cell">>, "cross_constraint")>>
    ELSE <<>>

CrossCorridor(i, o) ==
    IF IsDict(o) /\ TypeLower(o) = "corridor_segment"
       /\ IsDict(OrEmpty(GetD(o, "properties", JEmptyObj)))
       /\ LET props == OrEmpty(GetD(o, "properties", JEmptyObj))
              d == GetD(props, "direction", JStr(""))
              direction == IF Truthy(d) THEN Lower(StrOf(d)) ELSE ""
          IN  direction \notin Directions
    THEN <<ValidationIssue(<<"$", "objects", Idx(i), "properties", "direction">>,
                           <<"corridor_segment.properties.direction must be one of">>, "enum")>>
    ELSE <<>>

\* the cross-field block; every error inside it is swallowed
ValidateCross(spec) ==
    LET objs == OrEmptyList(GetD(spec, "objects", JArr(<<>>))) IN
    IF ~IsList(objs) THEN <<>>
    ELSE LET Door(i, o) == CrossDoor(objs.a, i, o) IN
         ForEach(objs.a, Door) \o ForEach(objs.a, CrossCorridor)

\* an outcome of validate: the issues returned, or the exception raised
Returned(issues) == [raised |-> FALSE, exc |-> "none", issues |-> issues]
Raised(exc) == [raised |-> TRUE, exc |-> exc, issues |-> <<>>]

\* a required-field check that stops at the first missing key
FirstMissingOnly(spec) ==
    LET missing == SelectSeq(RequiredKeys, LAMBDA k : ~Has(spec, k)) IN
    IF missing = <<>> THEN <<>>
    ELSE <<ValidationIssue(<<"$">>, <<"Missing required field:", missing[1]>>, "required")>>

\* the "Missing required field" issues
MissingRequired(spec) ==
    LET Missing(i, k) ==
            Require(Has(spec, k), <<"$">>, <<"Missing required field:", k>>, "required")
    IN  ForEach(RequiredKeys, Missing)

\* the section validators that run only when their key is present
Section(spec, k, V(_)) == IF Has(spec, k) THEN V(spec.o[k]) ELSE <<>>

ValidateGridOrRequired(spec) ==
    IF Has(spec, "grid") THEN ValidateGrid(spec.o["grid"])
    ELSE IF Get(spec, "domain") = JStr("procedural_dungeon")
         THEN <<ValidationIssue(<<"$", "grid">>, <<"grid is required for procedural_dungeon domain">>, "required")>>
         ELSE <<>>

\* units in UNITS_ALLOWED raises TypeError for a list or dict
UnitsUnhashable(spec) == ~Hashable(GetD(spec, "units", JStr("meters")))

\* (spec.get("constraints", {}) or {}).get(...) raises AttributeError when
\* constraints is truthy and not a dict
ConstraintsNoGet(spec) ==
    LET cons == GetD(spec, "constraints", JEmptyObj) IN Truthy(cons) /\ ~IsDict(cons)

\* SceneSpecValidator(expect_version).validate(spec)
Validate(spec, expect) ==
    IF ~IsDict(spec)
    THEN Returned(<<ValidationIssue(<<"$">>, <<"Spec must be an object, got:", TypeOf(spec)>>, "type")>>)
    ELSE IF UnitsUnhashable(spec) THEN Raised("TypeError")
    ELSE IF ConstraintsNoGet(spec) THEN Raised("AttributeError")
    ELSE Returned(
            MissingRequired(spec)
            \o ValidateVersion(spec, expect)
            \o ValidateDomain(spec)
            \o ValidateUnits(spec)
            \o ValidateSeed(spec)
            \o Section(spec, "metadata", ValidateMetadata)
            \o ValidateGridOrRequired(spec)
            \o Section(spec, "materials", ValidateMaterials)
            \o Section(spec, "collections", ValidateCollections)
            \o Section(spec, "objects", ValidateObjects)
            \o Section(spec, "lighting", ValidateLighting)
            \o Section(spec, "camera", ValidateCamera)
            \o Section(spec, "constraints", ValidateConstraints)
            \o ValidateCross(spec))

\* the grid hint of _validate_best_practices; an exception inside its try
\* leaves no hint
GridHint(spec) ==
    LET grid == OrEmpty(GetD(spec, "grid", JEmptyObj)) IN
    IF ~IsDict(grid) THEN <<>>
    ELSE LET dims == OrEmpty(GetD(grid, "dimensions", JEmptyObj)) IN
         IF ~IsDict(dims) THEN <<>>
         ELSE LET cols == GetD(dims, "cols", JInt(0))
                  rows == GetD(dims, "rows", JInt(0))
              IN  IF IntConvertible(cols) /\ IntConvertible(rows)
                     /\ IntOf(cols) > 0 /\ IntOf(rows) > 0 /\ IntOf(cols) * IntOf(rows) < 50
                  THEN <<ValidationIssue(<<"$", "grid", "dimensions">>,
                                         <<"Recommended minimum 50 cells">>, "warning")>>
                  ELSE <<>>

LightingHint(spec) ==
    LET lights == OrEmptyList(GetD(spec, "lighting", JArr(<<>>))) IN
    IF IsList(lights) /\ Len(lights.a) = 1
    THEN <<ValidationIssue(<<"$", "lighting">>, <<"Single light source may create harsh shadows">>, "hint")>>
    ELSE <<>>

FovHint(spec) ==
    LET camera == OrEmpty(GetD(spec, "camera", JEmptyObj)) IN
    IF ~IsDict(camera) THEN <<>>
    ELSE LET fov == GetD(camera, "fov_deg", JFloat(6000)) IN
         IF IsNum(fov) /\ Num100(fov) > 10000
         THEN <<ValidationIssue(<<"$", "camera", "fov_deg">>, <<"Very wide FOV">>, "hint")>>
         ELSE <<>>

\* _validate_best_practices(spec): the advisory hints; validate does not call it
validate_best_practices(spec) == GridHint(spec) \o LightingHint(spec) \o FovHint(spec)

\* a validation result with the advisory hints of the document added
Advised(r, spec) ==
    IF r.raised \/ ~IsDict(spec) THEN r
    ELSE [r EXCEPT !.issues = @ \o validate_best_practices(spec)]

\* validate_scene_spec(spec, expect_version) -> (ok, issues), or the exception
WithOk(r) ==
    [raised |-> r.raised, exc |-> r.exc, ok |-> ~r.raised /\ Len(r.issues) = 0, issues |-> r.issues]

\* a validation that also returns the advisory hints
ValidateAndAdvise(spec, expect) == WithOk(Advised(Validate(spec, expect), spec))

validate_scene_spec(spec, expect) == WithOk(Validate(spec, expect))

\* assert_valid_scene_spec(spec, expect_version): "ok", or the exception raised
RaiseUnlessOk(r) ==
    IF r.raised THEN r.exc
    ELSE IF ~r.ok THEN "SpecValidationError"
    ELSE "ok"

assert_valid_scene_spec(spec, expect) == RaiseUnlessOk(validate_scene_spec(spec, expect))

-----------------------------------------------------------------------------
(* Documents                                                                *)

Rec2(k1, v1, k2, v2) == JObj((k1 :> v1) @@ (k2 :> v2))
Vec(x, y, z) == JArr(<<JFloat(x), JFloat(y), JFloat(z)>>)
GridCell(c, r) == Rec2("col", JInt(c), "row", JInt(r))

\* the grid of the documents: GridSize x GridSize cells
GridSize == 5

RoomA ==
    JObj(("id" :> JStr("a")) @@ ("type" :> JStr("room")) @@ ("grid_cell" :> GridCell(1, 1))
         @@ ("properties" :> Rec2("width_cells", JInt(2), "height_cells", JInt(2)))
         @@ ("material" :> JStr("m")))
DoorD ==
    JObj(("id" :> JStr("d")) @@ ("type" :> JStr("door")) @@ ("grid_cell" :> GridCell(1, 1))
         @@ ("properties" :> Rec2("direction", JStr("south"), "width_m", JFloat(100))))
PropP ==
    JObj(("id" :> JStr("p")) @@ ("type" :> JStr("prop_instance")) @@ ("grid_cell" :> GridCell(3, 3))
         @@ ("material" :> JStr("m")))
CorridorB ==
    JObj(("id" :> JStr("b")) @@ ("type" :> JStr("corridor_segment")) @@ ("grid_cell" :> GridCell(3, 1))
         @@ ("properties" :> Rec2("length_cells", JInt(2), "direction", JStr("east"))))
Sun ==
    JObj(("type" :> JStr("sun")) @@ ("position" :> Vec(0, 0, 1000))
         @@ ("intensity" :> JFloat(100)))

\* a valid procedural_dungeon document (tests/test_spec_executor_atomic.py,
\* make_min_valid_spec, with a door, a prop and a corridor added)
BaseDoc ==
    JObj(("version" :> JStr("1.0.0"))
         @@ ("domain" :> JStr("procedural_dungeon"))
         @@ ("units" :> JStr("meters"))
         @@ ("seed" :> JInt(42))
         @@ ("metadata" :> Rec2("quality_mode", JStr("balanced"), "force_fail", JBool(FALSE)))
         @@ ("grid" :> Rec2("cell_size_m", JFloat(200),
                            "dimensions", Rec2("cols", JInt(GridSize), "rows", JInt(GridSize))))
         @@ ("objects" :> JArr(<<RoomA, DoorD, PropP, CorridorB>>))
         @@ ("lighting" :> JArr(<<Sun>>))
         @@ ("camera" :> Rec2("position", Vec(0, -500, 200), "rotation_euler", Vec(100, 0, 0)))
         @@ ("materials" :> JArr(<<JObj("name" :> JStr("m"))>>))
         @@ ("collections" :> JArr(<<Rec2("name", JStr("c"), "purpose", JStr("geometry"))>>))
         @@ ("constraints" :> Rec2("min_path_length_cells", JInt(5),
                                   "require_traversable_start_to_goal", JBool(TRUE))))

\* the position in a list that a path segment "[i]" names
PosOf(seg) == CHOOSE i \in 1..5 : Idx(i) = seg

\* doc with the value at a path (keys and "[i]" segments) replaced
RECURSIVE SetPath(_, _, _)
SetPath(doc, path, v) ==
    IF Len(path) = 0 THEN v
    ELSE LET k == path[1] rest == Tail(path) IN
         IF doc.t = "arr"
         THEN JArr([doc.a EXCEPT ![PosOf(k)] = SetPath(doc.a[PosOf(k)], rest, v)])
         ELSE Put(doc, k, SetPath(Get(doc, k), rest, v))

-----------------------------------------------------------------------------
(* Harness of the validator: a caller edits a valid document, then calls   *)
(* validate_scene_spec on it                                                *)

\* edits a document may carry before it is validated
MaxEdits == 2

Defect(id, path, val) == [id |-> id, sec |-> path[1], path |-> path, val |-> val]

\* value defects, each in the section (top-level key) it names
Defects ==
    { Defect("units_enum", <<"units">>, JStr("feet")),
      Defect("cols_range", <<"grid", "dimensions", "cols">>, JInt(300)),
      Defect("cell_range", <<"grid", "cell_size_m">>, JFloat(10)),
      Defect("mat_dup", <<"materials">>, JArr(<<JObj("name" :> JStr("m")), JObj("name" :> JStr("m"))>>)),
      Defect("light_empty", <<"lighting">>, JArr(<<>>)),
      Defect("light_range", <<"lighting", "[0]", "intensity">>, JInt(-1)),
      Defect("fov_range", <<"camera", "fov_deg">>, JInt(150)),
      Defect("mpl_min", <<"constraints", "min_path_length_cells">>, JInt(2)),
      Defect("ver_mismatch", <<"version">>, JStr("2.0.0")),
      Defect("ver_format", <<"version">>, JStr("1.0")),
      Defect("seed_min", <<"seed">>, JInt(-1)),
      Defect("domain_enum", <<"domain">>, JStr("city")),
      Defect("id_dup", <<"objects", "[2]", "id">>, JStr("a")),
      Defect("id_ascii", <<"objects", "[0]", "id">>, JStr("a b")),
      Defect("id_newline", <<"objects", "[0]", "id">>, JStr("a\n")),
      Defect("mat_newline", <<"materials", "[0]", "name">>, JStr("a\n")),
      Defect("door_far", <<"objects", "[1]", "grid_cell">>, GridCell(4, 4)),
      Defect("door_nocell", <<"objects", "[1]", "grid_cell">>, JNull),
      Defect("purpose_enum", <<"collections", "[0]", "purpose">>, JStr("bad")),
      Defect("quality_enum", <<"metadata", "quality_mode">>, JStr("ultra")) }

\* one value of every JSON type (and the falsy ones the code tells apart)
TypeReps ==
    { JNull, JBool(TRUE), JInt(7), JInt(0), JFloat(150), JStr("x"), JStr(""),
      JArr(<<>>), JArr(<<JInt(1)>>), JEmptyObj, JObj("k" :> JInt(1)) }

\* the fields a wrong-typed value is tried at
TypePaths ==
    { <<"version">>, <<"domain">>, <<"units">>, <<"seed">>, <<"metadata">>, <<"grid">>,
      <<"materials">>, <<"collections">>, <<"objects">>, <<"lighting">>, <<"camera">>,
      <<"constraints">>,
      <<"metadata", "quality_mode">>, <<"metadata", "notes">>,
      <<"grid", "cell_size_m">>, <<"grid", "dimensions">>, <<"grid", "dimensions", "cols">>,
      <<"materials", "[0]">>, <<"materials", "[0]", "name">>, <<"materials", "[0]", "pbr">>,
      <<"collections", "[0]">>, <<"collections", "[0]", "name">>, <<"collections", "[0]", "purpose">>,
      <<"objects", "[0]">>, <<"objects", "[0]", "id">>, <<"objects", "[0]", "type">>,
      <<"objects", "[0]", "position">>, <<"objects", "[0]", "grid_cell">>,
      <<"objects", "[0]", "grid_cell", "col">>, <<"objects", "[0]", "material">>,
      <<"objects", "[0]", "properties">>, <<"objects", "[1]", "properties">>,
      <<"lighting", "[0]">>, <<"lighting", "[0]", "type">>, <<"lighting", "[0]", "position">>,
      <<"lighting", "[0]", "intensity">>, <<"lighting", "[0]", "color_rgb">>,
      <<"camera", "position">>, <<"camera", "fov_deg">>,
      <<"constraints", "min_path_length_cells">>,
      <<"constraints", "require_traversable_start_to_goal">>,
      <<"constraints", "max_polycount">> }

NoEdits == [rem |-> {}, def |-> {}, typ |-> <<>>, secs |-> {}]
NoQuery == [kind |-> "none"]
NoAnswer == [called |-> FALSE]
NoResult == [called |-> FALSE, expect |-> "None", raised |-> FALSE, exc |-> "none",
             ok |-> FALSE, issues |-> <<>>]

EditCount == Cardinality(vedits.def) + (IF vedits.typ = <<>> THEN 0 ELSE 1)

\* a required top-level key is deleted from the (otherwise valid) document
RemoveRequired(k) ==
    /\ ~vres.called
    /\ vedits.def = {} /\ vedits.typ = <<>>
    /\ Has(vdoc, k)
    /\ vdoc' = Del(vdoc, k)
    /\ vedits' = [vedits EXCEPT !.rem = @ \cup {k}]
    /\ UNCHANGED <<builds, tq, tres, vres, world, rng, host, timers, variants, last, trace, calls>>

\* a value defect is introduced in a section not edited yet
AddDefect(d) ==
    /\ ~vres.called
    /\ vedits.rem = {}
    /\ EditCount < MaxEdits
    /\ d.sec \notin vedits.secs /\ "$" \notin vedits.secs
    /\ vdoc' = SetPath(vdoc, d.path, d.val)
    /\ vedits' = [vedits EXCEPT !.def = @ \cup {d.id}, !.secs = @ \cup {d.sec}]
    /\ UNCHANGED <<builds, tq, tres, vres, world, rng, host, timers, variants, last, trace, calls>>

\* a field is given a value of an arbitrary JSON type
SetType(path, v) ==
    /\ ~vres.called
    /\ vedits.rem = {} /\ vedits.typ = <<>>
    /\ EditCount < MaxEdits
    /\ path[1] \notin vedits.secs
    /\ vdoc' = SetPath(vdoc, path, v)
    /\ vedits' = [vedits EXCEPT !.typ = <<path, v>>, !.secs = @ \cup {path[1]}]
    /\ UNCHANGED <<builds, tq, tres, vres, world, rng, host, timers, variants, last, trace, calls>>

\* the document itself is any JSON value
SetTop(v) ==
    /\ ~vres.called
    /\ vedits = NoEdits
    /\ vdoc' = v
    /\ vedits' = [vedits EXCEPT !.typ = <<<<"$">>, v>>, !.secs = {"$"}]
    /\ UNCHANGED <<builds, tq, tres, vres, world, rng, host, timers, variants, last, trace, calls>>

\* validate_scene_spec(vdoc, expect_version)
CallValidate(expect) ==
    /\ ~vres.called
    /\ LET r == validate_scene_spec(vdoc, expect) IN
       vres' = [called |-> TRUE, expect |-> expect, raised |-> r.raised, exc |-> r.exc,
                ok |-> r.ok, issues |-> r.issues]
    /\ UNCHANGED <<builds, tq, tres, vdoc, vedits, world, rng, host, timers, variants, last, trace, calls>>

-----------------------------------------------------------------------------
(* traversability.py                                                        *)

InBounds(c, cols, rows) == 0 <= c[1] /\ c[1] < cols /\ 0 <= c[2] /\ c[2] < rows

\* the in-bounds 4-neighbours of a cell
neighbors_4(c, cols, rows) == {n \in Neighbors(c) : InBounds(n, cols, rows)}

Abs(x) == IF x < 0 THEN 0 - x ELSE x
manhattan(a, b) == Abs(a[1] - b[1]) + Abs(a[2] - b[2])

NoPath == [found |-> FALSE, len |-> 0]
PathOf(n) == [found |-> TRUE, len |-> n]

\* the entry heapq pops: the least (f, (col, row)) tuple
HeapMin(open) ==
    CHOOSE e \in open : \A x \in open :
        \/ e[1] < x[1]
        \/ e[1] = x[1] /\ e[2][1] < x[2][1]
        \/ e[1] = x[1] /\ e[2][1] = x[2][1] /\ e[2][2] <= x[2][2]

\* the A* loop: open heap, g_score (a cell outside DOMAIN has no score), closed set
RECURSIVE AStarLoop(_, _, _, _, _, _, _)
AStarLoop(open, g, closed, cols, rows, blocked, goal) ==
    IF open = {} THEN NoPath
    ELSE LET e == HeapMin(open)
             cur == e[2]
             rest == open \ {e}
         IN  IF cur \in closed THEN AStarLoop(rest, g, closed, cols, rows, blocked, goal)
             ELSE IF cur = goal THEN PathOf(g[cur])
             ELSE LET tentative == g[cur] + 1
                      better == {nb \in neighbors_4(cur, cols, rows) \ blocked :
                                    nb \notin DOMAIN g \/ tentative < g[nb]}
                      g2 == [c \in (DOMAIN g) \cup better |->
                                IF c \in better THEN tentative ELSE g[c]]
                      pushed == {<<tentative + manhattan(nb, goal), nb>> : nb \in better}
                  IN  AStarLoop(rest \cup pushed, g2, closed \cup {cur}, cols, rows, blocked, goal)

\* a search that never looks whether start or goal is itself blocked
AStarEndpointsUnchecked(cols, rows, blocked, start, goal) ==
    IF ~InBounds(start, cols, rows) THEN NoPath
    ELSE IF ~InBounds(goal, cols, rows) THEN NoPath
    ELSE AStarLoop({<<0, start>>}, [c \in {start} |-> 0], {}, cols, rows, blocked, goal)

\* astar_path_length(cols, rows, blocked, start, goal)
astar_path_length(cols, rows, blocked, start, goal) ==
    IF ~InBounds(start, cols, rows) THEN NoPath
    ELSE IF ~InBounds(goal, cols, rows) THEN NoPath
    ELSE IF start \in blocked \/ goal \in blocked THEN NoPath
    ELSE AStarLoop({<<0, start>>}, [c \in {start} |-> 0], {}, cols, rows, blocked, goal)

\* a check that forgets the minimum length
CheckPathOnly(cols, rows, blocked, start, goal, min_len) ==
    [ok |-> astar_path_length(cols, rows, blocked, start, goal).found,
     path |-> astar_path_length(cols, rows, blocked, start, goal)]

\* check_traversable(...): min_len is a record [given, n]
check_traversable(cols, rows, blocked, start, goal, min_len) ==
    LET length == astar_path_length(cols, rows, blocked, start, goal) IN
    IF ~length.found THEN [ok |-> FALSE, path |-> length]
    ELSE IF min_len.given /\ length.len < min_len.n THEN [ok |-> FALSE, path |-> length]
    ELSE [ok |-> TRUE, path |-> length]

\* _extract_grid_dims(spec): raises when grid or dimensions is a truthy value
\* without .get, or when cols or rows is not convertible by int()
GridDimsRaise(spec) ==
    LET grid == OrEmpty(Get(spec, "grid")) IN
    \/ ~IsDict(grid)
    \/ LET dims == OrEmpty(Get(grid, "dimensions")) IN
       \/ ~IsDict(dims)
       \/ ~IntConvertible(GetD(dims, "cols", JInt(0)))
       \/ ~IntConvertible(GetD(dims, "rows", JInt(0)))

extract_grid_dims(spec) ==
    LET dims == OrEmpty(Get(OrEmpty(Get(spec, "grid")), "dimensions")) IN
    <<IntOf(GetD(dims, "cols", JInt(0))), IntOf(GetD(dims, "rows", JInt(0)))>>

\* the cells a traversable_cells list forces open: the loop stops at the first
\* cell int() cannot convert (the surrounding try), keeping the cells before it
RECURSIVE TravCells(_, _, _, _)
TravCells(v, i, cols, rows) ==
    IF ~IsList(v) \/ i > Len(v.a) THEN [open |-> {}, raised |-> FALSE]
    ELSE LET cell == v.a[i] IN
         IF ~(IsList(cell) /\ Len(cell.a) = 2) THEN TravCells(v, i + 1, cols, rows)
         ELSE IF ~IntConvertible(cell.a[1]) \/ ~IntConvertible(cell.a[2])
         THEN [open |-> {}, raised |-> TRUE]
         ELSE LET c == <<IntOf(cell.a[1]), IntOf(cell.a[2])>>
                  r == TravCells(v, i + 1, cols, rows)
              IN  [open |-> (IF InBounds(c, cols, rows) THEN {c} ELSE {}) \cup r.open,
                   raised |-> r.raised]

\* iterating "x or []" raises TypeError for a truthy number
Iterable(v) == v.t \in {"str", "arr", "obj"}

\* the integer cell of a grid_cell dict, if col and row are ints inside the grid
CellIn(gc, cols, rows) ==
    IF IsInt(Get(gc, "col")) /\ IsInt(Get(gc, "row"))
          /\ InBounds(<<IntVal(Get(gc, "col")), IntVal(Get(gc, "row"))>>, cols, rows)
    THEN {<<IntVal(Get(gc, "col")), IntVal(Get(gc, "row"))>>}
    ELSE {}

\* the cells range(min_col, max_col) x range(min_row, max_row) of a rectangle
WalkableCells(b, cols, rows) ==
    {c \in (0..(cols - 1)) \X (0..(rows - 1)) :
        /\ IntOf(GetD(b, "min_col", JInt(0))) <= c[1] /\ c[1] < IntOf(GetD(b, "max_col", JInt(0)))
        /\ IntOf(GetD(b, "min_row", JInt(0))) <= c[2] /\ c[2] < IntOf(GetD(b, "max_row", JInt(0)))}

\* one pass of the per-object loop body: the cells it blocks and forces open;
\* an exception (the try/except continue) keeps what was added before it
ObjectCells(o, cols, rows) ==
    LET none == [blocked |-> {}, open |-> {}] IN
    IF ~IsDict(o) THEN none
    ELSE LET props == OrEmpty(Get(o, "properties")) IN
    IF ~IsDict(props) THEN none
    ELSE LET gcb == Get(o, "grid_cell")
             blk == IF Truthy(GetD(props, "blocked", JBool(FALSE))) /\ IsDict(gcb)
                    THEN CellIn(gcb, cols, rows) ELSE {}
             isdoor == Lower(StrOf(GetD(o, "type", JStr("")))) = "door"
             gcd == OrEmpty(GetD(o, "grid_cell", JEmptyObj))
         IN
    IF isdoor /\ ~IsDict(gcd) THEN [blocked |-> blk, open |-> {}]
    ELSE LET door == IF isdoor THEN CellIn(gcd, cols, rows) ELSE {}
             tc == OrEmptyList(GetD(o, "traversable_cells", JArr(<<>>)))
         IN
    IF ~Iterable(tc) THEN [blocked |-> blk, open |-> door]
    ELSE LET trav == TravCells(tc, 1, cols, rows) IN
    IF trav.raised THEN [blocked |-> blk, open |-> door \cup trav.open]
    ELSE LET wa == Get(o, "walkable_area")
             rect == IsDict(wa) /\ Lower(StrOf(GetD(wa, "type", JStr("")))) = "rectangle"
             b == IF rect THEN OrEmpty(GetD(wa, "bounds", JEmptyObj)) ELSE JEmptyObj
             okb == IsDict(b) /\ \A k \in {"min_col", "max_col", "min_row", "max_row"} :
                        IntConvertible(GetD(b, k, JInt(0)))
         IN  [blocked |-> blk,
              open |-> door \cup trav.open \cup (IF rect /\ okb THEN WalkableCells(b, cols, rows) ELSE {})]

\* the elements a for-loop over "objects" visits (characters and keys are not
\* dicts: their pass raises at once and adds nothing)
LoopItems(objs) == IF IsList(objs) THEN {objs.a[i] : i \in 1..Len(objs.a)} ELSE {}

\* _extract_blocked_from_spec(spec), for a spec whose objects can be iterated
extract_blocked_from_spec(spec) ==
    LET d == extract_grid_dims(spec)
        top == OrEmptyList(GetD(spec, "traversable_cells", JArr(<<>>)))
        topopen == TravCells(top, 1, d[1], d[2]).open
        items == LoopItems(OrEmptyList(Get(spec, "objects")))
        blocked == UNION {ObjectCells(o, d[1], d[2]).blocked : o \in items}
        forced == topopen \cup UNION {ObjectCells(o, d[1], d[2]).open : o \in items}
    IN  blocked \ forced

Max(a, b) == IF a >= b THEN a ELSE b
Min(a, b) == IF a <= b THEN a ELSE b

\* _default_start_goal(spec, cols, rows)
default_start_goal(cols, rows) ==
    IF cols > 0 /\ rows > 0
    THEN [start |-> <<0, 0>>, goal |-> <<Max(0, cols - 1), Max(0, rows - 1)>>]
    ELSE [start |-> <<0, 0>>, goal |-> <<0, 0>>]

\* constraints.min_path_length_cells when it is an int >= 0 (guarded by try)
MinLenOf(spec) ==
    LET cons == OrEmpty(GetD(spec, "constraints", JEmptyObj))
        mpl == IF IsDict(cons) THEN Get(cons, "min_path_length_cells") ELSE JNull
    IN  IF IsInt(mpl) /\ IntVal(mpl) >= 0 THEN [given |-> TRUE, n |-> IntVal(mpl)]
        ELSE [given |-> FALSE, n |-> 0]

\* is_spec_traversable(spec) raises on what _extract_grid_dims raises on and on
\* objects that cannot be iterated
SpecTraversableRaises(spec) ==
    GridDimsRaise(spec) \/ ~Iterable(OrEmptyList(Get(spec, "objects")))

\* an optional argument: None, or a value
None == [given |-> FALSE]
Some(v) == [given |-> TRUE, v |-> v]

\* is_spec_traversable(spec, start, goal, min_len), when it does not raise:
\* (ok, path_len) and the blocked set behind info["blocked_count"]
is_spec_traversable_args(spec, start, goal, min_len) ==
    LET d == extract_grid_dims(spec)
        sg == default_start_goal(d[1], d[2])
    IN  check_traversable(d[1], d[2], extract_blocked_from_spec(spec),
                          IF start.given THEN start.v ELSE sg.start,
                          IF goal.given THEN goal.v ELSE sg.goal,
                          IF min_len.given THEN [given |-> TRUE, n |-> min_len.v]
                          ELSE MinLenOf(spec))

\* is_spec_traversable(spec), as the gate calls it
is_spec_traversable(spec) == is_spec_traversable_args(spec, None, None, None)

-----------------------------------------------------------------------------
(* The host: bpy.data of Blender.  A datablock is known by its name, unique *)
(* within its category; new(name) picks the next free "name.NNN" when the   *)
(* name is taken; removing a collection leaves its objects and children in  *)
(* bpy.data.  Collections have no _add, and objects.new needs its           *)
(* object_data argument (objects.new(name) raises TypeError).               *)

Categories == {"collections", "objects", "meshes", "materials", "lights", "cameras"}

EmptyWorld ==
    [collections |-> {}, objects |-> {}, meshes |-> {}, materials |-> {},
     lights |-> {}, cameras |-> {}, links |-> {}, children |-> {}]

\* the name bpy.data.<category>.new(name) gives the new datablock
UniqueName(names, base) ==
    IF base \notin names THEN base
    ELSE IF (base \o ".001") \notin names THEN base \o ".001"
    ELSE IF (base \o ".002") \notin names THEN base \o ".002"
    ELSE base \o ".003"

\* temp_col.objects: the objects linked to a collection
ObjectsIn(w, col) == {l[2] : l \in {x \in w.links : x[1] = col}}

\* bpy.data.objects.remove(obj, do_unlink=True)
RemoveObject(w, nm) ==
    [w EXCEPT !.objects = @ \ {nm}, !.links = {l \in @ : l[2] # nm}]

\* bpy.data.collections.remove(col): its objects and child collections stay
RemoveCollection(w, nm) ==
    [w EXCEPT !.collections = @ \ {nm},
              !.links = {l \in @ : l[1] # nm},
              !.children = {c \in @ : c[1] # nm /\ c[2] # nm}]

\* col.name = new_name
RenameCollection(w, old, new) ==
    LET R(n) == IF n = old THEN new ELSE n IN
    [w EXCEPT !.collections = {R(n) : n \in @},
              !.links = {<<R(l[1]), l[2]>> : l \in @},
              !.children = {<<R(c[1]), R(c[2])>> : c \in @}]

\* the host creation call that fails during a call, if any: every new() of
\* that category raises (RuntimeError; TypeError for "materials_TypeError")
Faults ==
    {"none", "collections", "materials", "materials_TypeError", "meshes", "objects",
     "lights", "cameras"}

-----------------------------------------------------------------------------
(* cleanup.py                                                               *)

\* snapshot_datablocks(bpy): the names alive per category
snapshot_datablocks(w) == [c \in Categories |-> w[c]]

\* the first part of cleanup_new_datablocks: every object of the temp
\* collection is removed, then the temp collection itself
CleanupTempCollection(w, temp) ==
    IF temp \notin w.collections THEN w
    ELSE LET members == ObjectsIn(w, temp)
             w1 == [w EXCEPT !.objects = @ \ members,
                             !.links = {l \in @ : l[2] \notin members}]
         IN  RemoveCollection(w1, temp)

\* the second part: per category, what is alive and not in the snapshot goes
CleanupDiff(w, pre) ==
    LET newobjs == w.objects \ pre["objects"]
        newcols == w.collections \ pre["collections"]
    IN  [w EXCEPT !.objects = @ \ newobjs,
                  !.meshes = @ \cap pre["meshes"],
                  !.materials = @ \cap pre["materials"],
                  !.lights = @ \cap pre["lights"],
                  !.cameras = @ \cap pre["cameras"],
                  !.collections = @ \ newcols,
                  !.links = {l \in @ : l[2] \notin newobjs /\ l[1] \notin newcols},
                  !.children = {c \in @ : c[1] \notin newcols /\ c[2] \notin newcols}]

\* a cleanup that stops after the temp collection and never compares the
\* world with the snapshot
CleanupWithoutDiff(w, pre, temp) == CleanupTempCollection(w, temp)

\* cleanup_new_datablocks(pre_snapshot, temp_collection_name, bpy)
cleanup_new_datablocks(w, pre, temp) == CleanupDiff(CleanupTempCollection(w, temp), pre)

-----------------------------------------------------------------------------
(* The documents callers and the provider hand to the pipeline              *)

DocNames ==
    {"valid", "forced", "film", "blocked", "noversion", "unitslist", "consstr", "gridstr",
     "list"}

Doc(d) ==
    CASE d = "valid" -> BaseDoc
      [] d = "forced" -> SetPath(BaseDoc, <<"metadata", "force_fail">>, JBool(TRUE))
      [] d = "film" -> SetPath(BaseDoc, <<"domain">>, JStr("film_interior"))
      [] d = "blocked" ->
            SetPath(BaseDoc, <<"objects", "[2]">>,
                    Put(Put(PropP, "grid_cell", GridCell(0, 0)),
                        "properties", JObj("blocked" :> JBool(TRUE))))
      [] d = "noversion" -> Del(BaseDoc, "version")
      [] d = "unitslist" -> SetPath(BaseDoc, <<"units">>, JArr(<<>>))
      [] d = "consstr" -> SetPath(BaseDoc, <<"constraints">>, JStr("x"))
      [] d = "gridstr" -> SetPath(BaseDoc, <<"grid">>, JStr("x"))
      [] OTHER -> JArr(<<>>)

\* the documents themselves
Docs == [d \in DocNames |-> Doc(d)]

-----------------------------------------------------------------------------
(* spec_executor.py: the build.  A build state carries the world, the host  *)
(* fault of this call, the exception that left the build (err), whether a   *)
(* host creation call failed (hit), the random source, the temp collection  *)
(* and the collision collection ("" when there is none).  Lengths are in    *)
(* hundredths of a metre.                                                   *)

make_temp_collection_name(req) == "Canvas3D_Temp_" \o req
make_commit_collection_name(req) == "Canvas3D_Scene_" \o req

BuildState(w, fault, r, temp) ==
    [w |-> w, fault |-> fault, err |-> "none", hit |-> FALSE, rng |-> r,
     temp |-> temp, collision |-> ""]

\* s.strip()
Strip(s) == CASE s = " " -> "" [] s = "a\n" -> "a" [] OTHER -> s

\* str(o.get("id") or "").strip()
IdOf(o) == LET v == Get(o, "id") IN IF Truthy(v) THEN Strip(StrOf(v)) ELSE ""

\* int(props.get(k, 1) or 1)
IntOr1(props, k) == LET v == GetD(props, k, JInt(1)) IN IF Truthy(v) THEN IntOf(v) ELSE 1

\* float(grid.get("cell_size_m", 1.0) or 1.0)
CellSize(spec) ==
    LET v == GetD(OrEmpty(GetD(spec, "grid", JEmptyObj)), "cell_size_m", JFloat(100)) IN
    IF Truthy(v) THEN Num100(v) ELSE 100

\* _ensure_collection(name): an existing collection is reused; a failing
\* collections.new leaves through the _add fallback, which the host lacks
ensure_collection(s, name) ==
    IF name \in s.w.collections THEN s
    ELSE IF s.fault = "collections" THEN [s EXCEPT !.err = "AttributeError", !.hit = TRUE]
    ELSE [s EXCEPT !.w.collections = @ \cup {name}]

\* _ensure_collision_collection(temp_col): "<temp>_COLLISION", a child of temp
ensure_collision_collection(s) ==
    LET name == s.temp \o "_COLLISION" IN
    IF name \in s.w.collections THEN [s EXCEPT !.collision = name]
    ELSE IF s.fault = "collections" THEN [s EXCEPT !.collision = "", !.hit = TRUE]
    ELSE [s EXCEPT !.w.collections = @ \cup {name},
                   !.w.children = @ \cup {<<s.temp, name>>},
                   !.collision = name]

\* the steps of a build, in the order the code takes them; an exception
\* that leaves a builder ends the build
MeshStep(name, guarded, cond) == [k |-> "mesh", name |-> name, guarded |-> guarded, cond |-> cond]
ObjStep(name, link) == [k |-> "obj", name |-> name, guarded |-> TRUE, cond |-> link]
CollisionStep == [k |-> "collision", name |-> "", guarded |-> TRUE, cond |-> "always"]
PlaceholderStep(name) == [k |-> "obj1", name |-> name, guarded |-> TRUE, cond |-> "always"]
JitterStep == [k |-> "rand", name |-> "", guarded |-> TRUE, cond |-> "always"]

\* data.meshes.new(name), inside a try (guarded) or not
MeshesNew(s, name, guarded) ==
    IF s.fault = "meshes"
    THEN (IF guarded THEN [s EXCEPT !.hit = TRUE]
          ELSE [s EXCEPT !.hit = TRUE, !.err = "RuntimeError"])
    ELSE [s EXCEPT !.w.meshes = @ \cup {UniqueName(@, name)}]

\* _create_object_from_mesh(name, mesh) followed by the link into a collection
create_object_from_mesh(s, name, col) ==
    IF s.fault = "objects" THEN [s EXCEPT !.hit = TRUE]
    ELSE LET nm == UniqueName(s.w.objects, name) IN
         [s EXCEPT !.w.objects = @ \cup {nm}, !.w.links = @ \cup {<<col, nm>>}]

ApplyStep(s, st) ==
    IF s.err # "none" THEN s
    ELSE IF st.cond = "collision" /\ s.collision = "" THEN s
    ELSE CASE st.k = "mesh" -> MeshesNew(s, st.name, st.guarded)
           [] st.k = "obj" ->
                create_object_from_mesh(s, st.name,
                    IF st.cond = "collision" THEN s.collision ELSE s.temp)
           [] st.k = "collision" -> ensure_collision_collection(s)
           [] st.k = "rand" -> [s EXCEPT !.rng.draws = @ + 2]
           \* data.objects.new(name) without object_data: TypeError, swallowed
           [] OTHER -> s

RECURSIVE ApplySteps(_, _, _)
ApplySteps(s, steps, i) ==
    IF i > Len(steps) \/ s.err # "none" THEN s
    ELSE ApplySteps(ApplyStep(s, steps[i]), steps, i + 1)

\* _collect_door_map(objs): the door entries, in order, with their cell; a
\* door whose fields raise is skipped
DoorEntryOk(o) ==
    /\ IsDict(o) /\ Lower(StrOf(GetD(o, "type", JStr("")))) = "door"
    /\ LET gc == OrEmpty(GetD(o, "grid_cell", JEmptyObj)) IN
       /\ IsDict(gc)
       /\ IntConvertible(GetD(gc, "col", JInt(0))) /\ IntConvertible(GetD(gc, "row", JInt(0)))
    /\ IsDict(OrEmpty(GetD(o, "properties", JEmptyObj)))

DoorEntry(o) ==
    LET gc == OrEmpty(GetD(o, "grid_cell", JEmptyObj))
        props == OrEmpty(GetD(o, "properties", JEmptyObj))
        dv == Get(props, "direction")
        d == IF Truthy(dv) THEN Lower(StrOf(dv)) ELSE ""
    IN  [cell |-> <<IntOf(GetD(gc, "col", JInt(0))), IntOf(GetD(gc, "row", JInt(0)))>>,
         direction |-> IF d \in Directions THEN d ELSE "east",
         width_m |-> IF Has(props, "width_m") /\ IsNum(Get(props, "width_m"))
                     THEN JFloat(Num100(Get(props, "width_m"))) ELSE JNull,
         width_cells |-> IF Has(props, "width_cells") /\ IntConvertible(Get(props, "width_cells"))
                         THEN JInt(IntOf(Get(props, "width_cells"))) ELSE JNull]

\* every door of the document, whatever its cell
DoorsOfAnyCell(objs, cell) ==
    LET doors == SelectSeq(objs, DoorEntryOk)
    IN  [i \in 1..Len(doors) |-> DoorEntry(doors[i])]

collect_door_map(objs, cell) ==
    LET doors == SelectSeq(objs, DoorEntryOk)
        entries == [i \in 1..Len(doors) |-> DoorEntry(doors[i])]
    IN  SelectSeq(entries, LAMBDA e : e.cell = cell)

\* _door_width_m(d), then max(0.2, .)
DoorWidth(d, cell_size) ==
    IF ~IsNone(d.width_m) THEN Max(20, Max(50, d.width_m.h))
    ELSE IF ~IsNone(d.width_cells) /\ d.width_cells.n > 0
    THEN Max(20, Max(50, d.width_cells.n * cell_size))
    ELSE 90

\* the solid intervals of a wall of length total_len carved by the doors of
\* one side, in half hundredths (centres (k+1)/(n+1) * total_len, rounded down)
RECURSIVE SolidSegs(_, _, _, _, _)
SolidSegs(total2, doors, cell_size, k, start) ==
    IF k > Len(doors)
    THEN (IF total2 - start > 0 THEN <<<<start, total2>>>> ELSE <<>>)
    ELSE LET c2 == (k * total2) \div (Len(doors) + 1)
             w == DoorWidth(doors[k], cell_size)
             left == Max(0, c2 - w)
             right == Min(total2, c2 + w)
         IN  (IF left - start > 0 THEN <<<<start, left>>>> ELSE <<>>)
                 \o SolidSegs(total2, doors, cell_size, k + 1, Max(start, right))

\* the solid intervals of one side, the doors of which are those of the
\* structure's cell that name the side
SideSegs(total_len, doors, side, cell_size) ==
    SolidSegs(2 * total_len, SelectSeq(doors, LAMBDA d : d.direction = side), cell_size, 1, 0)

SegCount(total_len, doors, side, cell_size) ==
    Len(SolidSegs(2 * total_len, SelectSeq(doors, LAMBDA d : d.direction = side), cell_size, 1, 0))

\* the wall segments of one side: box mesh, object, and their collision hull
WallSteps(Name(_), ColName(_), n) ==
    CatUpTo([i \in 1..n |->
        <<MeshStep(Name(i - 1) \o "_mesh", FALSE, "always"),
          ObjStep(Name(i - 1), "temp"),
          MeshStep(ColName(i - 1) \o "_mesh", TRUE, "collision"),
          ObjStep(ColName(i - 1), "collision")>>], n)

CellName(prefix, c) == prefix \o ToString(c[1]) \o "_" \o ToString(c[2])

\* _build_dungeon_room(temp_col, obj_spec, cell_size, door_map)
build_dungeon_room(o, cell_size, objs) ==
    LET gc == OrEmpty(GetD(o, "grid_cell", JEmptyObj))
        props == OrEmpty(GetD(o, "properties", JEmptyObj))
        c == <<IntOf(GetD(gc, "col", JInt(0))), IntOf(GetD(gc, "row", JInt(0)))>>
        width_m == Max(100, IntOr1(props, "width_cells") * cell_size)
        depth_m == Max(100, IntOr1(props, "height_cells") * cell_size)
        room_doors == collect_door_map(objs, c)
        Side(label, side, len) ==
            LET Nm(i) == CellName("RoomWall_" \o label \o "_", c) \o "_" \o ToString(i)
                Cn(i) == Nm(i) \o "_COL"
            IN  WallSteps(Nm, Cn, SegCount(len, room_doors, side, cell_size))
    IN  <<MeshStep(CellName("RoomFloor_", c) \o "_mesh", FALSE, "always"),
          ObjStep(CellName("RoomFloor_", c), "temp"),
          CollisionStep>>
        \o Side("S", "south", width_m) \o Side("N", "north", width_m)
        \o Side("W", "west", depth_m) \o Side("E", "east", depth_m)
        \o <<MeshStep(CellName("RoomFloorCOL_", c) \o "_mesh", TRUE, "collision"),
             ObjStep(CellName("RoomFloorCOL_", c), "collision")>>

\* _build_dungeon_corridor(temp_col, obj_spec, cell_size, door_map)
build_dungeon_corridor(o, cell_size, objs) ==
    LET gc == OrEmpty(GetD(o, "grid_cell", JEmptyObj))
        props == OrEmpty(GetD(o, "properties", JEmptyObj))
        c == <<IntOf(GetD(gc, "col", JInt(0))), IntOf(GetD(gc, "row", JInt(0)))>>
        direction == Lower(StrOf(GetD(props, "direction", JStr("east"))))
        length_m == Max(cell_size, IntOr1(props, "length_cells") * cell_size)
        doors_here == collect_door_map(objs, c)
        Side(label, side) ==
            LET Nm(i) == CellName("CorridorWall_" \o label \o "_", c) \o "_" \o ToString(i)
                Cn(i) == CellName("CorridorWall" \o label \o "COL_", c) \o "_" \o ToString(i)
            IN  WallSteps(Nm, Cn, SegCount(length_m, doors_here, side, cell_size))
    IN  <<MeshStep(CellName("CorridorFloor_", c) \o "_mesh", FALSE, "always"),
          ObjStep(CellName("CorridorFloor_", c), "temp"),
          CollisionStep>>
        \o (IF direction \in {"east", "west"}
            THEN Side("S", "south") \o Side("N", "north")
            ELSE Side("W", "west") \o Side("E", "east"))
        \o <<MeshStep(CellName("CorridorFloorCOL_", c) \o "_mesh", TRUE, "collision"),
             ObjStep(CellName("CorridorFloorCOL_", c), "collision")>>


\* _build_materials(spec, temp_col): existing names are reused; only a
\* TypeError of materials.new is swallowed
RECURSIVE MaterialsFrom(_, _, _)
MaterialsFrom(s, mats, i) ==
    IF s.err # "none" \/ i > Len(mats) THEN s
    ELSE LET nv == Get(mats[i], "name")
             name == IF Truthy(nv) THEN Strip(StrOf(nv)) ELSE ""
             s2 == IF name = "" \/ name \in s.w.materials THEN s
                   ELSE IF s.fault = "materials_TypeError" THEN [s EXCEPT !.hit = TRUE]
                   ELSE IF s.fault = "materials"
                   THEN [s EXCEPT !.hit = TRUE, !.err = "RuntimeError"]
                   ELSE [s EXCEPT !.w.materials = @ \cup {name}]
         IN  MaterialsFrom(s2, mats, i + 1)

build_materials(s, spec) ==
    MaterialsFrom(s, OrEmptyList(GetD(spec, "materials", JArr(<<>>))).a, 1)

\* the dungeon fast path of _build_objects: rooms and corridors, then the
\* props, then the Obj_<id> placeholders
DungeonSteps(spec) ==
    LET objs == OrEmptyList(GetD(spec, "objects", JArr(<<>>))).a
        cell_size == CellSize(spec)
        T(o) == Lower(StrOf(GetD(o, "type", JStr(""))))
        Structure(i, o) ==
            IF T(o) = "room" THEN build_dungeon_room(o, cell_size, objs)
            ELSE IF T(o) = "corridor_segment" THEN build_dungeon_corridor(o, cell_size, objs)
            ELSE <<>>
        Prop(i, o) ==
            IF T(o) \in {"room", "corridor_segment", "door"} THEN <<>>
            ELSE LET name == "Obj_" \o (IF IdOf(o) = "" THEN "obj" ELSE IdOf(o)) IN
                 <<MeshStep(name \o "_mesh", TRUE, "always"), JitterStep, ObjStep(name, "temp")>>
        Placeholder(i, o) ==
            IF IdOf(o) = "" THEN <<>> ELSE <<PlaceholderStep("Obj_" \o IdOf(o))>>
    IN  ForEach(objs, Structure) \o ForEach(objs, Prop) \o ForEach(objs, Placeholder)

\* the name the generic path settles on: Obj_<id>, else Obj_<id>_2, _3, ...
GenericName(objects, base) ==
    IF base \notin objects THEN base
    ELSE IF (base \o "_2") \notin objects THEN base \o "_2"
    ELSE IF (base \o "_3") \notin objects THEN base \o "_3"
    ELSE base \o "_4"

\* the generic path of _build_objects: the mesh is created inside a try; an
\* object is created only with a mesh (objects.new(name) raises TypeError)
RECURSIVE GenericFrom(_, _, _)
GenericFrom(s, objs, i) ==
    IF i > Len(objs) THEN s
    ELSE LET o == objs[i]
             name == GenericName(s.w.objects, "Obj_" \o IdOf(o))
             s1 == MeshesNew(s, name \o "_mesh", TRUE)
             s2 == IF s.fault = "meshes" THEN s1
                   ELSE create_object_from_mesh(s1, name, s.temp)
         IN  GenericFrom(IF IdOf(o) = "" THEN s ELSE s2, objs, i + 1)

\* str(spec.get("domain", "procedural_dungeon")) == "procedural_dungeon"
IsDungeon(spec) ==
    StrOf(GetD(spec, "domain", JStr("procedural_dungeon"))) = "procedural_dungeon"

\* what strict validation against version "1.0.0" says of each document
Verdict == [d \in DocNames |-> assert_valid_scene_spec(Docs[d], "1.0.0")]

\* _build_objects(spec, temp_col), for document d
build_objects(s, d) ==
    IF s.err # "none" THEN s
    ELSE IF IsDungeon(Docs[d]) THEN ApplySteps(s, DungeonSteps(Docs[d]), 1)
    ELSE GenericFrom(s, OrEmptyList(GetD(Docs[d], "objects", JArr(<<>>))).a, 1)

\* lights.new / cameras.new followed by objects.new(name, datablock) and the
\* link into the temp collection, all inside one try
DataObject(s, cat, name) ==
    IF s.fault = cat THEN [s EXCEPT !.hit = TRUE]
    ELSE LET s1 == [s EXCEPT !.w[cat] = @ \cup {UniqueName(@, name)}] IN
         create_object_from_mesh(s1, name, s.temp)

\* _build_lights(spec, temp_col): Light_1, Light_2, ...
RECURSIVE LightsFrom(_, _, _)
LightsFrom(s, n, i) ==
    IF i > n THEN s ELSE LightsFrom(DataObject(s, "lights", "Light_" \o ToString(i)), n, i + 1)

build_lights(s, spec) ==
    IF s.err # "none" THEN s
    ELSE LightsFrom(s, Len(OrEmptyList(GetD(spec, "lighting", JArr(<<>>))).a), 1)

\* _build_camera(spec, temp_col)
build_camera(s, spec) ==
    IF s.err # "none" THEN s ELSE DataObject(s, "cameras", "Camera_Main")

\* _commit_collection(col, commit_name): a collection already carrying the
\* commit name is removed, then the temp collection is renamed
commit_collection(w, temp, commit_name) ==
    LET w1 == IF commit_name \in w.collections /\ commit_name # temp
              THEN RemoveCollection(w, commit_name) ELSE w
    IN  RenameCollection(w1, temp, commit_name)

\* bool(meta.get("force_fail", False))
ForceFail(spec) ==
    LET meta == OrEmpty(GetD(spec, "metadata", JEmptyObj)) IN
    IsDict(meta) /\ Truthy(GetD(meta, "force_fail", JBool(FALSE)))

\* the test hook after the builders: metadata.force_fail raises RuntimeError
ForceFailHook(s, fail) ==
    IF s.err = "none" /\ fail THEN [s EXCEPT !.err = "RuntimeError"] ELSE s

Builders(s0, d, spec) ==
    build_camera(build_lights(build_objects(build_materials(s0, spec), d), spec), spec)

Build(w, fault, r, d, temp) ==
    ForceFailHook(Builders(ensure_collection(BuildState(w, fault, r, temp), temp), d, Docs[d]),
                  ForceFail(Docs[d]))


\* random.seed(seed): the source restarts from the seed
Seeded(n) == [seeded |-> TRUE, seed |-> n, draws |-> 0]
Unseeded == [seeded |-> FALSE, seed |-> 0, draws |-> 0]

\* request_id or "req-unknown"
ReqOf(request_id) == IF request_id = "" THEN "req-unknown" ELSE request_id

\* outcome of a call: world and random source after it, whether it returned
\* or raised, what it raised (type and message tokens), the stages it ran
Outcome(w, r, result, exc, msg, name, stages, hit) ==
    [w |-> w, rng |-> r, result |-> result, exc |-> exc, msg |-> msg, name |-> name,
     stages |-> stages, hit |-> hit]

\* lines 74-85 of execute_scene_spec: strict validation, and only after it
\* the reseeding from int(spec.get("seed", 0))
SeedAfter(r, d, v) ==
    [verdict |-> v,
     rng |-> IF v = "ok" THEN Seeded(IntOf(GetD(Docs[d], "seed", JInt(0)))) ELSE r]

\* the two steps in the other order: the source is reseeded whatever the
\* validation says (seed 0 when the document has no usable seed)
SeedThenValidate(r, d) ==
    [verdict |-> Verdict[d],
     rng |-> IF IsDict(Docs[d]) /\ IntConvertible(GetD(Docs[d], "seed", JInt(0)))
             THEN Seeded(IntOf(GetD(Docs[d], "seed", JInt(0)))) ELSE Seeded(0)]

\* validation without the reseeding: the source stays as the caller left it
ValidateWithoutSeed(r, d) == [verdict |-> Verdict[d], rng |-> r]

ValidateThenSeed(r, d) == SeedAfter(r, d, Verdict[d])

\* the end of execute_scene_spec: commit of a build that came through, or
\* the except clause (cleanup when asked for, then SpecExecutionError)
Finish(pre, req, temp_col_name, commit_col_name, cleanup_on_failure, b) ==
    IF b.err = "none"
    THEN Outcome(commit_collection(b.w, temp_col_name, commit_col_name), b.rng,
                 "returned", "none", <<>>, commit_col_name,
                 <<"validate_ok", "seed", "snapshot", "build", "commit">>, b.hit)
    ELSE Outcome(IF cleanup_on_failure
                 THEN cleanup_new_datablocks(b.w, pre, temp_col_name) ELSE b.w,
                 b.rng, "raised", "SpecExecutionError",
                 <<"[", req, "]", "Execution failed:", b.err>>, "",
                 <<"validate_ok", "seed", "snapshot", "build",
                   IF cleanup_on_failure THEN "rollback" ELSE "no_cleanup">>, b.hit)

\* execute_scene_spec once validation and seeding have given vs
Validated(w, bpy, fault, d, req, dry_run, cleanup_on_failure, vs) ==
    IF vs.verdict = "SpecValidationError"
    THEN Outcome(w, vs.rng, "raised", "SpecExecutionError",
                 <<"[", req, "]", "Spec validation failed:">>, "", <<"validate_fail">>, FALSE)
    ELSE IF vs.verdict # "ok"
    THEN Outcome(w, vs.rng, "raised", vs.verdict, <<vs.verdict>>, "", <<"validate_raise">>, FALSE)
    ELSE IF ~bpy
    THEN (IF dry_run
          THEN Outcome(w, vs.rng, "returned", "none", <<>>, "Canvas3D_DryRun_" \o req,
                       <<"validate_ok", "seed", "dry_run">>, FALSE)
          ELSE Outcome(w, vs.rng, "raised", "SpecExecutionError",
                       <<"[", req, "]", "bpy module not available. Run inside Blender.">>, "",
                       <<"validate_ok", "seed", "no_host">>, FALSE))
    ELSE Finish(snapshot_datablocks(w), req, make_temp_collection_name(req),
                make_commit_collection_name(req), cleanup_on_failure,
                Build(w, fault, vs.rng, d, make_temp_collection_name(req)))

\* execute_scene_spec(spec, request_id, expect_version="1.0.0",
\* dry_run_when_no_bpy, cleanup_on_failure) for document d on world w, with
\* the host fault of this call
execute_scene_spec(w, r, bpy, fault, d, request_id, dry_run, cleanup_on_failure) ==
    Validated(w, bpy, fault, d, ReqOf(request_id), dry_run, cleanup_on_failure,
              ValidateThenSeed(r, d))

-----------------------------------------------------------------------------
(* orchestrator.py and llm_interface.py                                     *)

\* a gate that lets every request proceed
GateAlwaysOpen(spec) == [proceed |-> TRUE, stage |-> "gate_pass"]

\* _traversability_gate(spec, ...): TRUE lets the request proceed.  Only the
\* procedural_dungeon domain is checked; any exception fails open
traversability_gate(spec) ==
    IF ~IsDict(spec) THEN [proceed |-> TRUE, stage |-> "gate_error"]
    ELSE IF Lower(StrOf(GetD(spec, "domain", JStr("")))) # "procedural_dungeon"
    THEN [proceed |-> TRUE, stage |-> "gate_skip"]
    ELSE IF SpecTraversableRaises(spec) THEN [proceed |-> TRUE, stage |-> "gate_error"]
    ELSE IF is_spec_traversable(spec).ok THEN [proceed |-> TRUE, stage |-> "gate_pass"]
    ELSE [proceed |-> FALSE, stage |-> "gate_block"]

\* _sanitize_and_validate_scene_spec(payload): the spec, or what it raises
\* (ProviderError for a document with issues, else the validator's exception)
SpecOrProviderError(r) ==
    IF r.raised THEN [ok |-> FALSE, stage |-> "validate_raise"]
    ELSE IF ~r.ok THEN [ok |-> FALSE, stage |-> "validate_fail"]
    ELSE [ok |-> TRUE, stage |-> "validate_ok"]

sanitize_and_validate_scene_spec(spec) == SpecOrProviderError(validate_scene_spec(spec, "1.0.0"))

\* what the gate and the provider's validation say of each document
Gate == [d \in DocNames |-> traversability_gate(Docs[d])]
Sanitized == [d \in DocNames |-> sanitize_and_validate_scene_spec(Docs[d])]

-----------------------------------------------------------------------------
(* The calls                                                                *)

\* request ids of direct calls ("" stands for no request id) and the
\* "req-<uuid>" id a facade entry point draws
ReqIds == {"", "r1"}
FacadeIds == {"req-1"}

\* the bundles the provider returns for a variants request
Bundles == {<<"valid", "blocked">>, <<"noversion", "film">>, <<"gridstr">>, <<"unitslist", "valid">>}

\* worlds the user may start from: an empty file, the scene of
\* test_atomic_cleanup_on_failure, and a scene whose names meet the build's
KeepWorld ==
    [EmptyWorld EXCEPT !.collections = {"KeepCol"}, !.objects = {"KeepObj"},
                       !.materials = {"KeepMat"}, !.links = {<<"KeepCol", "KeepObj">>}]
UserWorld ==
    [EmptyWorld EXCEPT !.collections = {"KeepCol", "Canvas3D_Temp_r1"},
                       !.objects = {"KeepObj", "Mine", "Light_1"},
                       !.meshes = {"Mine_mesh"},
                       !.materials = {"m"},
                       !.lights = {"Light_1"},
                       !.links = {<<"KeepCol", "KeepObj">>, <<"KeepCol", "Light_1">>,
                                  <<"Canvas3D_Temp_r1", "Mine">>}]

\* calls made in one behaviour
MaxCalls == 2

\* what a call remembers of the call made before it
NoPrev == [exec |-> FALSE, doc |-> "valid", req |-> "", fault |-> "none", result |-> "none"]

NoCall ==
    [path |-> "none", phase |-> "none", exec |-> FALSE, doc |-> "valid", req |-> "",
     cleanup |-> FALSE, fault |-> "none", before |-> EmptyWorld, rngbefore |-> Unseeded,
     result |-> "none", exc |-> "none", msg |-> <<>>, name |-> "", hit |-> FALSE,
     prev |-> NoPrev]

Init ==
    /\ vdoc = BaseDoc /\ vedits = NoEdits /\ vres = NoResult
    /\ tq = NoQuery /\ tres = NoAnswer /\ builds = {}
    /\ host \in BOOLEAN
    /\ world \in (IF host THEN {EmptyWorld, KeepWorld, UserWorld} ELSE {EmptyWorld})
    /\ rng = Unseeded
    /\ timers = {}
    /\ variants = <<>>
    /\ last = NoCall
    /\ trace = <<>>
    /\ calls = 0

\* a host fault can only show in a call that reaches the build; the dry-run
\* flag only matters without a host
FaultsFor(d) ==
    IF host /\ Verdict[d] = "ok" THEN Faults ELSE {"none"}

\* the call is recorded: its inputs, the world before it, its outcome
Record(path, phase, exec, d, req, cleanup, fault, pretrace, out) ==
    /\ last' = [path |-> path, phase |-> phase, exec |-> exec, doc |-> d, req |-> req,
                cleanup |-> cleanup, fault |-> fault, before |-> world, rngbefore |-> rng,
                result |-> out.result, exc |-> out.exc, msg |-> out.msg, name |-> out.name,
                hit |-> out.hit,
                prev |-> [exec |-> last.exec, doc |-> last.doc, req |-> last.req,
                          fault |-> last.fault, result |-> last.result]]
    /\ trace' = pretrace \o out.stages
    /\ world' = out.w
    /\ rng' = out.rng

\* a facade step that ends without entering the executor
Ends(result, stages) == Outcome(world, rng, result, "none", <<>>, "", stages, FALSE)

\* SpecExecutor().execute_scene_spec(...) called directly
Execute(d, request_id, dry_run, cleanup, fault) ==
    /\ calls < MaxCalls
    /\ fault \in FaultsFor(d)
    /\ host => dry_run
    /\ calls' = calls + 1
    /\ Record("api", "call", TRUE, d, request_id, cleanup, fault, <<>>,
              execute_scene_spec(world, rng, host, fault, d, request_id, dry_run, cleanup))
    /\ UNCHANGED <<builds, tq, tres, vdoc, vedits, vres, host, timers, variants>>


\* what a facade path does once the gate let the spec through: with a host
\* the executor call is registered as a timer callback (cleanup on), without
\* one it runs at once (dry run, cleanup off)
ScheduleOrRun(path, d, rid, pretrace) ==
    IF host
    THEN /\ timers' = timers \cup {[path |-> path, doc |-> d, req |-> rid, trace |-> pretrace]}
         /\ Record(path, "call", FALSE, d, rid, TRUE, "none", pretrace, Ends("scheduled", <<>>))
    ELSE /\ timers' = timers
         /\ Record(path, "call", TRUE, d, rid, FALSE, "none", pretrace,
                   execute_scene_spec(world, rng, host, "none", d, rid, TRUE, FALSE))

\* generate_scene(prompt, context): provider spec (validated by the LLM
\* interface), gate, then the executor, all synchronously
GenerateSceneSteps(d, rid, fault, sv, g) ==
    IF ~sv.ok
    THEN /\ fault = "none"
         /\ Record("generate_scene", "call", FALSE, d, rid, TRUE, fault, <<>>,
                   Ends("provider_error", <<sv.stage>>))
    ELSE IF ~g.proceed
    THEN /\ fault = "none"
         /\ Record("generate_scene", "call", FALSE, d, rid, TRUE, fault, <<>>,
                   Ends("blocked", <<sv.stage, g.stage>>))
    ELSE /\ fault \in FaultsFor(d)
         /\ Record("generate_scene", "call", TRUE, d, rid, TRUE, fault,
                   <<sv.stage, g.stage>>,
                   execute_scene_spec(world, rng, host, fault, d, rid, TRUE, TRUE))

GenerateScene(d, rid, fault) ==
    /\ calls < MaxCalls
    /\ calls' = calls + 1
    /\ GenerateSceneSteps(d, rid, fault, Sanitized[d], Gate[d])
    /\ UNCHANGED <<builds, tq, tres, vdoc, vedits, vres, host, timers, variants>>

\* a facade path that schedules the build: the stages before it (validated
\* says whether the path validates the document itself), then the timer
GateThenSchedule(path, d, rid, pre, known, g) ==
    IF ~g.proceed
    THEN /\ timers' = timers
         /\ Record(path, "call", FALSE, d, rid, TRUE, "none", known,
                   Ends("blocked", pre \o <<g.stage>>))
    ELSE ScheduleOrRun(path, d, rid, known \o pre \o <<g.stage>>)

\* _worker_generate_scene(prompt, context, request_id)
WorkerGenerateSceneSteps(d, rid, sv) ==
    IF ~sv.ok
    THEN /\ timers' = timers
         /\ Record("worker_generate_scene", "call", FALSE, d, rid, TRUE, "none", <<>>,
                   Ends("provider_error", <<sv.stage>>))
    ELSE GateThenSchedule("worker_generate_scene", d, rid, <<sv.stage>>, <<>>, Gate[d])

WorkerGenerateScene(d, rid) ==
    /\ calls < MaxCalls
    /\ calls' = calls + 1
    /\ WorkerGenerateSceneSteps(d, rid, Sanitized[d])
    /\ UNCHANGED <<builds, tq, tres, vdoc, vedits, vres, host, variants>>

\* execute_spec(spec, context): the caller's spec goes to the gate as it is
ExecuteSpec(d, rid) ==
    /\ calls < MaxCalls
    /\ calls' = calls + 1
    /\ GateThenSchedule("execute_spec", d, rid, <<>>, <<>>, Gate[d])
    /\ UNCHANGED <<builds, tq, tres, vdoc, vedits, vres, host, variants>>

\* get_scene_spec_variants: the variants that validate; an exception of the
\* validator, or no valid variant, leaves the worker without storing any
ValidatedVariants(bundle) ==
    IF \E i \in 1..Len(bundle) : Sanitized[bundle[i]].stage = "validate_raise" THEN <<>>
    ELSE SelectSeq(bundle, LAMBDA d : Sanitized[d].ok)

\* _worker_generate_variants(prompt, controls, context, request_id)
StoreVariants(bundle, valid) ==
    /\ variants' = IF valid = <<>> THEN variants ELSE valid
    /\ Record("worker_generate_variants", "call", FALSE, bundle[1], "", FALSE, "none", <<>>,
              Ends(IF valid = <<>> THEN "provider_error" ELSE "stored", <<"validate_bundle">>))

WorkerGenerateVariants(bundle) ==
    /\ calls < MaxCalls
    /\ calls' = calls + 1
    /\ StoreVariants(bundle, ValidatedVariants(bundle))
    /\ UNCHANGED <<builds, tq, tres, vdoc, vedits, vres, host, timers>>

\* select_and_execute_variant(request_id, index, context): the stored
\* variants were validated when they were stored
SelectAndExecuteVariant(index, rid) ==
    /\ calls < MaxCalls
    /\ calls' = calls + 1
    /\ IF variants = <<>> \/ index < 0 \/ index >= Len(variants)
       THEN /\ timers' = timers
            /\ Record("select_and_execute_variant", "call", FALSE, "valid", rid, TRUE, "none",
                      <<>>, Ends("no_variant", <<>>))
       ELSE GateThenSchedule("select_and_execute_variant", variants[index + 1], rid,
                             <<>>, <<"validate_ok">>, Gate[variants[index + 1]])
    /\ UNCHANGED <<builds, tq, tres, vdoc, vedits, vres, host, variants>>

\* a registered _exec_on_main callback runs on the main thread
TimerFire(t, fault) ==
    /\ t \in timers
    /\ fault \in FaultsFor(t.doc)
    /\ timers' = timers \ {t}
    /\ Record(t.path, "timer", TRUE, t.doc, t.req, TRUE, fault, t.trace,
              execute_scene_spec(world, rng, host, fault, t.doc, t.req, TRUE, TRUE))
    /\ UNCHANGED <<builds, tq, tres, vdoc, vedits, vres, host, variants, calls>>

\* direct calls of the executor
Next ==
    \E d \in DocNames, r \in ReqIds, dry \in BOOLEAN, c \in BOOLEAN, f \in Faults :
        Execute(d, r, dry, c, f)

Spec == Init /\ [][Next]_vars

\* calls through the orchestrator facade, and the timer callbacks they leave
NextF ==
    \/ \E d \in DocNames, rid \in FacadeIds, f \in Faults : GenerateScene(d, rid, f)
    \/ \E d \in DocNames, rid \in FacadeIds : WorkerGenerateScene(d, rid)
    \/ \E d \in DocNames, rid \in FacadeIds : ExecuteSpec(d, rid)
    \/ \E b \in Bundles : WorkerGenerateVariants(b)
    \/ \E i \in {0, 1}, rid \in FacadeIds : SelectAndExecuteVariant(i, rid)
    \/ \E t \in timers, f \in Faults : TimerFire(t, f)

SpecF == Init /\ [][NextF]_vars

\* the validator harness: the executor and the facade stay idle
InitV ==
    /\ vdoc = BaseDoc /\ vedits = NoEdits /\ vres = NoResult
    /\ tq = NoQuery /\ tres = NoAnswer /\ builds = {}
    /\ host = FALSE /\ world = EmptyWorld /\ rng = Unseeded /\ timers = {}
    /\ variants = <<>> /\ last = NoCall /\ trace = <<>> /\ calls = 0

NextV ==
    \/ \E i \in 1..Len(RequiredKeys) : RemoveRequired(RequiredKeys[i])
    \/ \E d \in Defects : AddDefect(d)
    \/ \E p \in TypePaths, v \in TypeReps : SetType(p, v)
    \/ \E v \in TypeReps : SetTop(v)
    \/ \E e \in {"1.0.0", "None"} : CallValidate(e)

SpecV == InitV /\ [][NextV]_vars

-----------------------------------------------------------------------------
(* Properties of the executor (specification Spec)                          *)

\* the invocation the last call belongs to ran this stage
Ran(stage) == \E i \in 1..Len(trace) : trace[i] = stage

\* the temp collection of the last call
LastTemp == make_temp_collection_name(ReqOf(last.req))

\* validate reports at least one issue for the document
HasIssues(d) ==
    /\ ~validate_scene_spec(Docs[d], "1.0.0").raised
    /\ Len(validate_scene_spec(Docs[d], "1.0.0").issues) >= 1

\* C1: in a host, execute with cleanup_on_failure on a schema-valid document
\* whose metadata asks for the forced failure raises; afterwards no category
\* holds a name that was absent when the call started, and the temp
\* collection of the request exists only if it existed before the call.
C1_ForcedFailureLeaksNothing ==
    (last.exec /\ host /\ last.cleanup /\ Verdict[last.doc] = "ok" /\ ForceFail(Docs[last.doc]))
        => /\ last.result = "raised"
           /\ \A c \in Categories : world[c] \subseteq last.before[c]
           /\ LastTemp \in world.collections => LastTemp \in last.before.collections

\* a forced failure in a scene that already held the user's datablocks, after
\* the build had created every resource of the document
C1_ForcedFailureRolledBack ==
    /\ last.exec /\ host /\ last.cleanup /\ last.doc = "forced" /\ last.fault = "none"
    /\ last.result = "raised" /\ Ran("rollback")
    /\ last.before = KeepWorld /\ world = KeepWorld

\* C2: after execute fails and rolls back, every name that was in the
\* snapshot taken at the start of the call is still in its category.
C2_RollbackKeepsSnapshot ==
    (last.exec /\ Ran("rollback")) => \A c \in Categories : last.before[c] \subseteq world[c]

\* C3: when a host creation call fails during the build, execute raises; it
\* returns a published name only after a build in which none failed.
C3_HostFailureRaises ==
    (last.exec /\ last.hit) => last.result = "raised"

\* C6: when validate reports at least one issue for the document, execute
\* raises SpecExecutionError and leaves the world and the random source as
\* they were before the call.
C6_RejectedHasNoImpact ==
    (last.exec /\ HasIssues(last.doc))
        => /\ last.result = "raised" /\ last.exc = "SpecExecutionError"
           /\ world = last.before
           /\ rng = last.rngbefore

\* a document is rejected in a host whose scene an earlier call had built and
\* whose random source that call had seeded and drawn from
C6_RejectedAfterBuild ==
    /\ last.exec /\ host /\ HasIssues(last.doc) /\ last.result = "raised"
    /\ last.rngbefore.seeded /\ last.rngbefore.draws > 0
    /\ make_commit_collection_name("r1") \in world.collections

\* C7: every call of execute returns a name or raises SpecExecutionError
\* whose message carries the request id ("req-unknown" without one).
C7_OnlyTypedErrorEscapes ==
    last.exec =>
        \/ last.result = "returned" /\ last.name # ""
        \/ /\ last.result = "raised" /\ last.exc = "SpecExecutionError"
           /\ \E i \in 1..Len(last.msg) : last.msg[i] = ReqOf(last.req)

-----------------------------------------------------------------------------
(* Properties of the facade (specification SpecF)                           *)

GateStages == {"gate_pass", "gate_skip", "gate_error", "gate_block"}

\* the document is of the grid domain and is_spec_traversable reports not ok
Untraversable(d) ==
    /\ IsDict(Docs[d])
    /\ Lower(StrOf(GetD(Docs[d], "domain", JStr("")))) = "procedural_dungeon"
    /\ ~SpecTraversableRaises(Docs[d])
    /\ ~is_spec_traversable(Docs[d]).ok

\* C4: on every facade path a grid-domain document for which the
\* reachability check does not report ok never reaches the builder: its call
\* leaves the world as it was, takes no snapshot and schedules no build; so
\* every grid-domain document that is built has a start-to-goal path of its
\* declared minimum length.
C4_UntraversableNeverBuilt ==
    /\ Untraversable(last.doc) /\ last.path # "none"
           => ~last.exec /\ ~Ran("snapshot") /\ world = last.before
    /\ \A t \in timers : ~Untraversable(t.doc)

\* the second stored variant is selected and the gate stops it
C4_SelectedVariantBlocked ==
    /\ last.path = "select_and_execute_variant" /\ last.doc = "blocked"
    /\ last.result = "blocked" /\ Ran("gate_block")
    /\ Untraversable(last.doc)

\* C5: the stages of one facade invocation run in the order validate, gate,
\* snapshot, build, commit or rollback: the gate is evaluated only on a
\* document that has passed validation, and the build starts only after both.
C5_GateOnlyOnValidated ==
    \A i \in 1..Len(trace) :
        /\ trace[i] \in GateStages => \E j \in 1..(i - 1) : trace[j] = "validate_ok"
        /\ trace[i] = "snapshot" =>
              /\ \E j \in 1..(i - 1) : trace[j] = "validate_ok"
              /\ \E j \in 1..(i - 1) : trace[j] \in GateStages \ {"gate_block"}

-----------------------------------------------------------------------------
(* Properties of the validator (specification SpecV)                        *)

IssueSet(issues) == {issues[i] : i \in 1..Len(issues)}

\* the issues validate reports for the valid document with one value replaced
AloneIssues(path, val, expect) ==
    IssueSet(validate_scene_spec(SetPath(BaseDoc, path, val), expect).issues)

\* the replacements a document carries
EditsOf(e) ==
    {<<d.path, d.val>> : d \in {x \in Defects : x.id \in e.def}}
        \cup (IF e.typ = <<>> \/ "$" \in e.secs THEN {} ELSE {e.typ})

\* C8: validate returns for every input; it never raises.
C8_ValidateNeverRaises == vres.called => ~vres.raised

\* C9 as stated: a missing required field X yields an issue with code
\* "required" whose path mentions X.
C9_RequiredPathMentionsField ==
    (vres.called /\ vedits.rem # {}) =>
        \A k \in vedits.rem :
            \E i \in 1..Len(vres.issues) :
                /\ vres.issues[i].code = "required"
                /\ \E j \in 1..Len(vres.issues[i].path) : vres.issues[i].path[j] = k

\* C9: every missing required field X yields exactly one issue with code
\* "required"; its path is "$" and its message names X, and no such issue
\* names a field that is present.
C9_RequiredMessageNamesField ==
    (vres.called /\ vedits.rem # {}) =>
        /\ ~vres.raised /\ ~vres.ok
        /\ \A k \in vedits.rem :
              Cardinality({i \in 1..Len(vres.issues) :
                  vres.issues[i] = ValidationIssue(<<"$">>, <<"Missing required field:", k>>, "required")}) = 1
        /\ \A i \in 1..Len(vres.issues) :
              vres.issues[i].code = "required" /\ vres.issues[i].path = <<"$">>
                  => vres.issues[i].msg[2] \in vedits.rem

\* a document that lacks several required fields was validated
C9_SeveralRemoved ==
    vres.called /\ Cardinality(vedits.rem) >= 2 /\ Len(vres.issues) >= 2

\* C10: validate accumulates: for a document with defects in several
\* sections, every issue (path and code) a defect yields alone is among the
\* issues returned.
C10_DefectsAccumulate ==
    (vres.called /\ vedits.rem = {} /\ "$" \notin vedits.secs) =>
        \A e \in EditsOf(vedits) :
            \A a \in AloneIssues(e[1], e[2], vres.expect) :
                \E i \in 1..Len(vres.issues) :
                    vres.issues[i].path = a.path /\ vres.issues[i].code = a.code

\* C11: a document validate accepts against version v carries a string
\* version equal to v, a domain among the allowed ones and an integer seed
\* >= 0 (not a boolean, not null); and a version that is present and differs
\* from v yields an issue at $.version with code "mismatch".
C11_AcceptedHeader ==
    (vres.called /\ ~vres.raised /\ vres.expect # "None" /\ IsDict(vdoc)) =>
        /\ vres.ok =>
              /\ IsStr(Get(vdoc, "version")) /\ Get(vdoc, "version").s = vres.expect
              /\ IsStr(Get(vdoc, "domain")) /\ Get(vdoc, "domain").s \in ALLOWED_DOMAINS
              /\ Get(vdoc, "seed").t = "int" /\ Get(vdoc, "seed").n >= 0
        /\ (Has(vdoc, "version") /\ Get(vdoc, "version") # JStr(vres.expect)) =>
              \E i \in 1..Len(vres.issues) :
                  vres.issues[i].path = <<"$", "version">> /\ vres.issues[i].code = "mismatch"

\* s is non-empty and made only of ASCII letters, digits, "_" and "-"
OnlyAsciiSafe(s) ==
    Len(Chars(s)) > 0 /\ \A i \in 1..Len(Chars(s)) : Chars(s)[i] \in AsciiSafeChars

\* the elements of a list carry, under key, non-empty ASCII-safe strings that
\* are pairwise distinct
IdentifiersSound(list, key) ==
    /\ IsList(list)
    /\ \A i \in 1..Len(list.a) :
          /\ IsDict(list.a[i])
          /\ IsStr(Get(list.a[i], key))
          /\ OnlyAsciiSafe(Get(list.a[i], key).s)
          /\ \A j \in 1..Len(list.a) : i # j => Get(list.a[j], key) # Get(list.a[i], key)

\* two elements of the list carry the same non-empty string under key
HasDuplicateIdentifier(list, key) ==
    /\ IsList(list)
    /\ \E i, j \in 1..Len(list.a) :
          /\ i < j /\ IsDict(list.a[i]) /\ IsDict(list.a[j])
          /\ IsStr(Get(list.a[i], key)) /\ StripNonEmpty(Get(list.a[i], key).s)
          /\ Get(list.a[i], key) = Get(list.a[j], key)

\* the positions of the elements whose string under key is not blank
\* and holds a character outside the ASCII-safe set
NonAsciiAt(list, key) ==
    IF ~IsList(list) THEN {}
    ELSE {i \in 1..Len(list.a) :
             /\ IsDict(list.a[i]) /\ IsStr(Get(list.a[i], key))
             /\ StripNonEmpty(Get(list.a[i], key).s)
             /\ ~OnlyAsciiSafe(Get(list.a[i], key).s)}

IssueAt(path, code) ==
    \E i \in 1..Len(vres.issues) : vres.issues[i].path = path /\ vres.issues[i].code = code

\* what C12 asks of one list of the validated document
IdentifiersChecked(sec, key) ==
    LET list == Get(vdoc, sec) IN
    /\ vres.ok => IdentifiersSound(list, key)
    /\ HasDuplicateIdentifier(list, key) => IssueAt(<<"$", sec>>, "unique")
    /\ \A i \in NonAsciiAt(list, key) : IssueAt(<<"$", sec, Idx(i), key>>, "ascii")

\* C12: in a document validate accepts every object id, material name and
\* collection name is non-empty, made only of ASCII letters, digits, "_" and
\* "-", and distinct within its list; a duplicated identifier yields an issue
\* with code "unique" and a non-ASCII one an issue with code "ascii".
C12_IdentifiersAsciiUnique ==
    (vres.called /\ ~vres.raised /\ IsDict(vdoc)) =>
        /\ Has(vdoc, "objects") => IdentifiersChecked("objects", "id")
        /\ Has(vdoc, "materials") => IdentifiersChecked("materials", "name")
        /\ Has(vdoc, "collections") => IdentifiersChecked("collections", "name")

\* the cell an object is anchored at: int(gc.get("col", 0)), int(gc.get("row", 0))
AnchorOk(o) ==
    /\ IsDict(o)
    /\ LET gc == OrEmpty(GetD(o, "grid_cell", JEmptyObj)) IN
       /\ IsDict(gc)
       /\ IntConvertible(GetD(gc, "col", JInt(0))) /\ IntConvertible(GetD(gc, "row", JInt(0)))

Anchor(o) ==
    LET gc == OrEmpty(GetD(o, "grid_cell", JEmptyObj)) IN
    <<IntOf(GetD(gc, "col", JInt(0))), IntOf(GetD(gc, "row", JInt(0)))>>

\* the properties of an object, when they are a dict
PropsOf(o) ==
    IF IsDict(OrEmpty(GetD(o, "properties", JEmptyObj)))
    THEN OrEmpty(GetD(o, "properties", JEmptyObj)) ELSE JEmptyObj

CellsOr1(o, k) ==
    LET v == GetD(PropsOf(o), k, JInt(1)) IN
    IF Truthy(v) /\ IntConvertible(v) THEN Max(1, IntOf(v)) ELSE 1

\* the cells the floor of a room or corridor covers, from its anchor cell
Footprint(o) ==
    IF ~AnchorOk(o) THEN {}
    ELSE IF TypeLower(o) = "room"
    THEN {<<Anchor(o)[1] + i, Anchor(o)[2] + j>> :
             i \in 0..(CellsOr1(o, "width_cells") - 1), j \in 0..(CellsOr1(o, "height_cells") - 1)}
    ELSE IF TypeLower(o) = "corridor_segment"
    THEN LET d == GetD(PropsOf(o), "direction", JStr("east")) IN
         IF Lower(StrOf(d)) \in {"east", "west"}
         THEN {<<Anchor(o)[1] + i, Anchor(o)[2]>> : i \in 0..(CellsOr1(o, "length_cells") - 1)}
         ELSE {<<Anchor(o)[1], Anchor(o)[2] + i>> : i \in 0..(CellsOr1(o, "length_cells") - 1)}
    ELSE {}

StructureFootprint(arr) == UNION {Footprint(arr[i]) : i \in 1..Len(arr)}

\* the doors of a list that sit neither on nor next to a room or corridor cell
StrayDoors(arr) ==
    {i \in 1..Len(arr) :
        /\ AnchorOk(arr[i]) /\ TypeLower(arr[i]) = "door"
        /\ Anchor(arr[i]) \notin StructureFootprint(arr)
        /\ Neighbors(Anchor(arr[i])) \cap StructureFootprint(arr) = {}}

\* C13: in a grid-domain document validate accepts, every door, with or
\* without an explicit grid_cell, sits on or 4-adjacent to a cell of a room
\* or corridor; a door that does not yields an issue with code
\* "cross_constraint" at its $.objects[i].
C13_DoorsAdjacent ==
    (vres.called /\ ~vres.raised /\ IsDict(vdoc)
       /\ Get(vdoc, "domain") = JStr("procedural_dungeon") /\ IsList(Get(vdoc, "objects"))) =>
        /\ vres.ok => StrayDoors(Get(vdoc, "objects").a) = {}
        /\ \A i \in StrayDoors(Get(vdoc, "objects").a) :
              IssueAt(<<"$", "objects", Idx(i)>>, "cross_constraint")

\* the closed taxonomy of issue codes
IssueCodes ==
    {"type", "required", "enum", "range", "format", "ascii", "unique", "minItems",
     "minimum", "cross_constraint", "mismatch"}

\* C14: every issue validate returns carries a code of the closed taxonomy;
\* the default code "invalid" and the advisory codes "hint" and "warning"
\* never appear.
C14_CodesClosed ==
    vres.called => \A i \in 1..Len(vres.issues) : vres.issues[i].code \in IssueCodes

\* validate returned several issues of different codes for a document the
\* advisory checks would have commented on
C14_SeveralCodes ==
    /\ vres.called /\ ~vres.raised /\ IsDict(vdoc)
    /\ Cardinality({vres.issues[i].code : i \in 1..Len(vres.issues)}) >= 2
    /\ validate_best_practices(vdoc) # <<>>

-----------------------------------------------------------------------------
(* Harness of the grid search: a caller blocks cells of a grid, then calls  *)
(* astar_path_length                                                        *)

\* side of the largest grid searched
MaxGrid == 3
\* cells a caller blocks before searching
MaxBlocked == 3

Idle ==
    /\ vdoc = BaseDoc /\ vedits = NoEdits /\ vres = NoResult
    /\ host = FALSE /\ world = EmptyWorld /\ rng = Unseeded /\ timers = {}
    /\ builds = {}
    /\ variants = <<>> /\ last = NoCall /\ trace = <<>> /\ calls = 0

InitA ==
    /\ Idle
    /\ tq \in {[kind |-> "grid", cols |-> c, rows |-> r, blocked |-> {}] :
                  c \in (MaxGrid - 1)..MaxGrid, r \in (MaxGrid - 1)..MaxGrid}
    /\ tres = NoAnswer

\* one more cell is put into the blocked set
BlockCell(c) ==
    /\ ~tres.called
    /\ Cardinality(tq.blocked) < MaxBlocked
    /\ c \notin tq.blocked
    /\ tq' = [tq EXCEPT !.blocked = @ \cup {c}]
    /\ UNCHANGED <<builds, vdoc, vedits, vres, tres, world, rng, host, timers, variants, last, trace, calls>>

\* astar_path_length(cols, rows, blocked, start, goal)
CallAstar(start, goal) ==
    /\ ~tres.called
    /\ tres' = [called |-> TRUE, start |-> start, goal |-> goal,
                path |-> astar_path_length(tq.cols, tq.rows, tq.blocked, start, goal)]
    /\ UNCHANGED <<builds, vdoc, vedits, vres, tq, world, rng, host, timers, variants, last, trace, calls>>

NextA ==
    \/ \E c \in (0..(MaxGrid - 1)) \X (0..(MaxGrid - 1)) : BlockCell(c)
    \/ \E s \in (0..MaxGrid) \X (0..MaxGrid), g \in (0..MaxGrid) \X (0..MaxGrid) : CallAstar(s, g)

SpecA == InitA /\ [][NextA]_vars

\* the in-bounds cells that are not blocked
FreeCells(cols, rows, blocked) == ((0..(cols - 1)) \X (0..(rows - 1))) \ blocked

\* breadth-first distance from a frontier at distance d to the goal through
\* free cells; -1 when the goal cannot be reached
RECURSIVE BfsFrom(_, _, _, _, _)
BfsFrom(frontier, seen, goal, free, d) ==
    IF goal \in frontier THEN d
    ELSE LET next == (UNION {Neighbors(c) : c \in frontier} \cap free) \ seen IN
         IF next = {} THEN -1
         ELSE BfsFrom(next, seen \cup next, goal, free, d + 1)

BfsDistance(cols, rows, blocked, start, goal) ==
    IF start \notin FreeCells(cols, rows, blocked) \/ goal \notin FreeCells(cols, rows, blocked)
    THEN -1
    ELSE BfsFrom({start}, {start}, goal, FreeCells(cols, rows, blocked), 0)

\* C15: astar_path_length returns the breadth-first distance from start to
\* goal through in-bounds, non-blocked cells, the Manhattan distance when no
\* cell of the grid is blocked, and None exactly when there is no path
\* (start or goal out of bounds or blocked included).
C15_AstarShortest ==
    tres.called =>
        LET ref == BfsDistance(tq.cols, tq.rows, tq.blocked, tres.start, tres.goal) IN
        /\ tres.path.found <=> ref >= 0
        /\ tres.path.found => tres.path.len = ref
        /\ (tres.path.found /\ FreeCells(tq.cols, tq.rows, tq.blocked) = FreeCells(tq.cols, tq.rows, {}))
              => tres.path.len = Abs(tres.start[1] - tres.goal[1]) + Abs(tres.start[2] - tres.goal[2])

\* a wall with one gap off the straight line forced a detour
C15_Detour ==
    /\ tres.called /\ tres.path.found
    /\ tres.path.len > Abs(tres.start[1] - tres.goal[1]) + Abs(tres.start[2] - tres.goal[2])

\* a wall without a gap between start and goal gave None
C15_Barrier ==
    /\ tres.called /\ ~tres.path.found
    /\ tq.cols = MaxGrid
    /\ tres.start = <<0, 1>> /\ tres.goal = <<MaxGrid - 1, 1>>
    /\ tq.blocked = {<<1, r>> : r \in 0..(tq.rows - 1)}

-----------------------------------------------------------------------------
(* Harness of the reachability check: a caller puts objects into a grid     *)
(* document, then calls is_spec_traversable on it                           *)

\* objects a document carries before it is queried
MaxObjects == 3

\* the cell [c, r] of a traversable_cells list
CellPair(c) == JArr(<<JInt(c[1]), JInt(c[2])>>)

BlockedAt(c) ==
    JObj(("type" :> JStr("cube")) @@ ("grid_cell" :> GridCell(c[1], c[2]))
         @@ ("properties" :> JObj("blocked" :> JBool(TRUE))))
DoorAt(c) == JObj(("type" :> JStr("door")) @@ ("grid_cell" :> GridCell(c[1], c[2])))
BlockedDoorAt(c) == Put(DoorAt(c), "properties", JObj("blocked" :> JBool(TRUE)))
Listing(c) == JObj(("type" :> JStr("prop_instance")) @@ ("traversable_cells" :> JArr(<<CellPair(c)>>)))
AreaOver(minc, maxc, minr, maxr) ==
    JObj(("type" :> JStr("room"))
         @@ ("walkable_area" :>
                Rec2("type", JStr("rectangle"),
                     "bounds", JObj(("min_col" :> JInt(minc)) @@ ("max_col" :> JInt(maxc))
                                    @@ ("min_row" :> JInt(minr)) @@ ("max_row" :> JInt(maxr))))))

\* the objects a caller may add
MarkObjects ==
    {BlockedAt(c) : c \in ({1} \X (0..(MaxGrid - 2)))
                          \cup {<<0, 0>>, <<MaxGrid - 1, MaxGrid - 2>>, <<MaxGrid, 0>>}}
        \cup {DoorAt(<<1, 0>>), BlockedDoorAt(<<0, 0>>), Listing(<<1, 0>>),
              AreaOver(1, 1, 0, 1), AreaOver(1, 2, 0, 2)}

\* the document of a query
TravDoc(q) ==
    JObj(("grid" :> Rec2("cell_size_m", JFloat(200),
                         "dimensions", Rec2("cols", JInt(q.cols), "rows", JInt(q.rows))))
         @@ ("objects" :> JArr(q.objs))
         @@ ("traversable_cells" :> JArr(q.top))
         @@ ("constraints" :> (IF q.min = JNull THEN JEmptyObj
                               ELSE JObj("min_path_length_cells" :> q.min))))

InitT ==
    /\ Idle
    /\ tq = [kind |-> "doc", cols |-> MaxGrid, rows |-> MaxGrid - 1, objs |-> <<>>,
             top |-> <<>>, min |-> JNull]
    /\ tres = NoAnswer

\* an object is put at the front or at the back of the objects list
AddObject(o, front) ==
    /\ ~tres.called
    /\ Len(tq.objs) < MaxObjects
    /\ tq' = [tq EXCEPT !.objs = IF front THEN <<o>> \o @ ELSE Append(@, o)]
    /\ UNCHANGED <<builds, vdoc, vedits, vres, tres, world, rng, host, timers, variants, last, trace, calls>>

\* the document lists a traversable cell itself
ListTopCell(c) ==
    /\ ~tres.called
    /\ tq.top = <<>>
    /\ tq' = [tq EXCEPT !.top = <<CellPair(c)>>]
    /\ UNCHANGED <<builds, vdoc, vedits, vres, tres, world, rng, host, timers, variants, last, trace, calls>>

\* the document declares constraints.min_path_length_cells
DeclareMin(n) ==
    /\ ~tres.called
    /\ tq.min = JNull
    /\ tq' = [tq EXCEPT !.min = JInt(n)]
    /\ UNCHANGED <<builds, vdoc, vedits, vres, tres, world, rng, host, timers, variants, last, trace, calls>>

\* is_spec_traversable(doc, start, goal, min_len)
CallReachable(start, goal, min_len) ==
    /\ ~tres.called
    /\ LET r == is_spec_traversable_args(TravDoc(tq), start, goal, min_len) IN
       tres' = [called |-> TRUE, start |-> start, goal |-> goal, min_len |-> min_len,
                ok |-> r.ok, path |-> r.path,
                blocked |-> extract_blocked_from_spec(TravDoc(tq))]
    /\ UNCHANGED <<builds, vdoc, vedits, vres, tq, world, rng, host, timers, variants, last, trace, calls>>

NextT ==
    \/ \E o \in MarkObjects, front \in BOOLEAN : AddObject(o, front)
    \/ ListTopCell(<<1, 1>>)
    \/ \E n \in {2, 5} : DeclareMin(n)
    \/ \E s \in {None, Some(<<0, 1>>)}, g \in {None, Some(<<MaxGrid - 1, 0>>)},
          m \in {None, Some(0), Some(4)} : CallReachable(s, g, m)

SpecT == InitT /\ [][NextT]_vars

\* the start, the goal and the declared minimum a query is answered for
QueryStart == IF tres.start.given THEN tres.start.v ELSE <<0, 0>>
QueryGoal == IF tres.goal.given THEN tres.goal.v ELSE <<tq.cols - 1, tq.rows - 1>>
MinDeclared == tres.min_len.given \/ tq.min # JNull
QueryMin == IF tres.min_len.given THEN tres.min_len.v ELSE tq.min.n

\* C16: is_spec_traversable returns ok exactly when a path from start to
\* goal (by default the opposite corners) exists and is not shorter than the
\* declared minimum (the argument, else the document's constraint); without
\* a path the length is None, and with a path it is the actual length, also
\* when ok is false.
C16_ReachableIff ==
    tres.called =>
        LET ref == BfsDistance(tq.cols, tq.rows, tres.blocked, QueryStart, QueryGoal) IN
        /\ tres.ok <=> (ref >= 0 /\ (MinDeclared => ref >= QueryMin))
        /\ ref < 0 => ~tres.path.found
        /\ ref >= 0 => tres.path.found /\ tres.path.len = ref

\* a path exists but is shorter than the minimum the document declares
C16_TooShort ==
    /\ tres.called /\ ~tres.ok /\ tres.path.found
    /\ ~tres.min_len.given /\ tq.min = JInt(5) /\ tres.path.len < 5
    /\ tres.blocked # {}

\* the objects of the queried document
QueryObjects == {tq.objs[i] : i \in 1..Len(tq.objs)}

InGrid(c) == 0 <= c[1] /\ c[1] < tq.cols /\ 0 <= c[2] /\ c[2] < tq.rows

GridCellOf(o) == <<Get(Get(o, "grid_cell"), "col").n, Get(Get(o, "grid_cell"), "row").n>>

\* the cells of objects whose properties.blocked is true
MarkedBlocked ==
    {GridCellOf(o) : o \in {x \in QueryObjects :
        Has(x, "properties") /\ Get(Get(x, "properties"), "blocked") = JBool(TRUE)}}

DoorCells == {GridCellOf(o) : o \in {x \in QueryObjects : Get(x, "type") = JStr("door")}}

\* the cells listed as traversable, by the document or by an object
ListedCells ==
    {<<tq.top[i].a[1].n, tq.top[i].a[2].n>> : i \in 1..Len(tq.top)}
        \cup UNION {{<<Get(o, "traversable_cells").a[i].a[1].n, Get(o, "traversable_cells").a[i].a[2].n>> :
                        i \in 1..Len(Get(o, "traversable_cells").a)} :
                    o \in {x \in QueryObjects : Has(x, "traversable_cells")}}

\* the cells from (min_col, min_row) to (max_col, max_row) of the rectangles
AreaCells ==
    UNION {{c \in (0..(tq.cols - 1)) \X (0..(tq.rows - 1)) :
               LET b == Get(Get(o, "walkable_area"), "bounds") IN
               /\ Get(b, "min_col").n <= c[1] /\ c[1] <= Get(b, "max_col").n
               /\ Get(b, "min_row").n <= c[2] /\ c[2] <= Get(b, "max_row").n} :
           o \in {x \in QueryObjects : Has(x, "walkable_area")}}

\* C17: the blocked set derived from a document is the in-bounds cells of
\* the objects marked blocked, minus every door cell, every cell listed as
\* traversable and every cell inside the declared bounds of a walkable_area,
\* whatever the order of the objects; a blocked default start or goal that
\* is not forced open gives (ok false, length None).
C17_BlockedSet ==
    tres.called =>
        /\ tres.blocked = {c \in MarkedBlocked : InGrid(c)} \ (DoorCells \cup ListedCells \cup AreaCells)
        /\ (~tres.start.given /\ ~tres.goal.given
              /\ {<<0, 0>>, <<tq.cols - 1, tq.rows - 1>>} \cap tres.blocked # {})
              => ~tres.ok /\ ~tres.path.found

-----------------------------------------------------------------------------
(* Commit and naming                                                        *)

\* two calls in a row with the same document and the same request id, both
\* with a host, both without a host fault, both returning a name
SameRequestTwice ==
    /\ host /\ last.exec /\ last.prev.exec
    /\ last.result = "returned" /\ last.prev.result = "returned"
    /\ last.fault = "none" /\ last.prev.fault = "none"
    /\ last.doc = last.prev.doc /\ last.req = last.prev.req

\* C18: two successful executor calls in a row with the same document and
\* request id both return Canvas3D_Scene_<requestId>; after the second call
\* the collection of that name exists and every category of the world holds
\* the names it held after the first call: nothing the first call built
\* stays beside what the second call built.
C18_CommitOverwrites ==
    SameRequestTwice =>
        /\ last.name = make_commit_collection_name(ReqOf(last.req))
        /\ last.name \in world.collections
        /\ snapshot_datablocks(world) = snapshot_datablocks(last.before)

\* the second call returned the public name and the public collection is there
C18_SecondReturnsName ==
    SameRequestTwice =>
        /\ last.name = make_commit_collection_name(ReqOf(last.req))
        /\ last.name \in world.collections
        /\ last.name \in last.before.collections

\* the names the executor derives from the temp name of a request
TempNames(req) ==
    {make_temp_collection_name(req), make_temp_collection_name(req) \o "_COLLISION"}

\* C19: once an executor call with a host has returned a name, no category
\* of the world (collections with their child collections, objects, meshes,
\* materials, lights, cameras) holds a name that carries
\* Canvas3D_Temp_<requestId>.
C19_NoTempNameLeft ==
    (host /\ last.exec /\ last.result = "returned") =>
        \A c \in Categories : world[c] \cap TempNames(ReqOf(last.req)) = {}

\* the temp collection itself is gone after a call that returned
C19_TempCollectionRenamed ==
    (host /\ last.exec /\ last.result = "returned") =>
        make_temp_collection_name(ReqOf(last.req)) \notin world.collections

\* the object ids and the material names document d declares
DeclaredIds(d) ==
    LET objs == OrEmptyList(GetD(Docs[d], "objects", JArr(<<>>))).a IN
    {IdOf(objs[i]) : i \in 1..Len(objs)} \ {""}

DeclaredMaterials(d) ==
    LET mats == OrEmptyList(GetD(Docs[d], "materials", JArr(<<>>))).a IN
    {StrOf(Get(mats[i], "name")) : i \in 1..Len(mats)}

\* C20: whenever an executor call with a host returns, the name it returns
\* is Canvas3D_Scene_<requestId>, a collection of that name exists, every
\* object id X of the document has an object Obj_X and every material name
\* of the document has a material of that name.
C20_SuccessPostcondition ==
    (host /\ last.exec /\ last.result = "returned") =>
        /\ last.name = make_commit_collection_name(ReqOf(last.req))
        /\ last.name \in world.collections
        /\ \A x \in DeclaredIds(last.doc) : ("Obj_" \o x) \in world.objects
        /\ \A m \in DeclaredMaterials(last.doc) : m \in world.materials

\* the same without the objects, for calls the host let through unhindered
C20_NameCollectionMaterials ==
    (host /\ last.exec /\ last.result = "returned" /\ last.fault = "none") =>
        /\ last.name = make_commit_collection_name(ReqOf(last.req))
        /\ last.name \in world.collections
        /\ \A m \in DeclaredMaterials(last.doc) : m \in world.materials

-----------------------------------------------------------------------------
(* Persistence of published workspaces                                      *)

\* the public names the calls of a behaviour can publish
PublicNames == {make_commit_collection_name(ReqOf(r)) : r \in ReqIds}

\* what the collection name holds in world w: the objects linked to it, its
\* child collections and the objects linked to those, as far as they are alive
Workspace(w, name) ==
    [objects |-> ObjectsIn(w, name) \cap w.objects,
     children |-> {c[2] : c \in {x \in w.children : x[1] = name}} \cap w.collections,
     nested |-> {l \in w.links : <<name, l[1]>> \in w.children /\ l[2] \in w.objects}]

\* the last executor call committed under the public name n
Supersedes(n) == last.result = "returned" /\ last.name = n

\* the last executor call failed and was left without cleanup
LeftWithoutCleanup == last.result = "raised" /\ ~last.cleanup

-----------------------------------------------------------------------------
(* Facade requests from several threads                                     *)

\* Blender's main thread, which also runs the timer callbacks, and a
\* background thread of the caller
Threads == {"main", "bg"}

\* threads inside execute_scene_spec, between its snapshot and its end
Busy == {b.thread : b \in builds}

InitC ==
    /\ vdoc = BaseDoc /\ vedits = NoEdits /\ vres = NoResult
    /\ tq = NoQuery /\ tres = NoAnswer /\ builds = {}
    /\ host = TRUE /\ world \in {EmptyWorld, KeepWorld} /\ rng = Unseeded /\ timers = {}
    /\ variants = <<>> /\ last = NoCall /\ trace = <<>> /\ calls = 0

\* generate_scene(prompt, context) called on thread th, up to the snapshot
\* inside execute_scene_spec: the provider's spec validated, the gate passed,
\* the document validated again, the random source reseeded, the snapshot taken
BeginBuild(th, d, rid) ==
    /\ calls < MaxCalls
    /\ th \notin Busy
    /\ Sanitized[d].ok /\ Gate[d].proceed
    /\ calls' = calls + 1
    /\ rng' = ValidateThenSeed(rng, d).rng
    /\ builds' = builds \cup {[thread |-> th, doc |-> d, req |-> rid, before |-> world]}
    /\ UNCHANGED <<vdoc, vedits, vres, tq, tres, world, host, timers, variants, last, trace>>

\* the rest of that call: the build on the world as it is by now, then the
\* commit, or the cleanup against the snapshot taken at the start
EndBuild(b, fault) ==
    /\ b \in builds
    /\ fault \in FaultsFor(b.doc)
    /\ builds' = builds \ {b}
    /\ Record("generate_scene", "call", TRUE, b.doc, b.req, TRUE, fault,
              <<"validate_ok", "gate_pass">>,
              Finish(snapshot_datablocks(b.before), b.req,
                     make_temp_collection_name(b.req), make_commit_collection_name(b.req),
                     TRUE,
                     Build(world, fault, rng, b.doc, make_temp_collection_name(b.req))))
    /\ UNCHANGED <<vdoc, vedits, vres, tq, tres, host, timers, variants, calls>>

\* generate_scene for a spec the provider's validation or the gate rejects
RejectedSync(d, rid) ==
    /\ ~(Sanitized[d].ok /\ Gate[d].proceed)
    /\ GenerateScene(d, rid, "none")

\* a timer callback runs when the main thread is not inside a call
TimerFireMain(t, fault) ==
    /\ "main" \notin Busy
    /\ TimerFire(t, fault)

NextC ==
    \/ \E th \in Threads, d \in DocNames, rid \in FacadeIds : BeginBuild(th, d, rid)
    \/ \E b \in builds, f \in Faults : EndBuild(b, f)
    \/ \E d \in DocNames, rid \in FacadeIds : RejectedSync(d, rid)
    \/ \E d \in DocNames, rid \in FacadeIds : WorkerGenerateScene(d, rid)
    \/ \E t \in timers, f \in Faults : TimerFireMain(t, f)

SpecC == InitC /\ [][NextC]_vars

\* C22: builds are serialized: while an executor call is between its
\* snapshot and its commit or rollback, the world is the one it took the
\* snapshot of, whatever threads and entry points the requests come from.
C22_BuildsSerialized ==
    \A b \in builds : world = b.before

\* a rollback leaves the published workspaces it found in the world
C22_RollbackSparesOthers ==
    (last.exec /\ last.result = "raised" /\ Ran("rollback")) =>
        (last.before.collections \cap {make_commit_collection_name(r) : r \in FacadeIds})
            \subseteq world.collections

-----------------------------------------------------------------------------
(* Determinism                                                              *)

\* int(spec.get("seed", 0)) of document d
DocSeed(d) == IntOf(GetD(Docs[d], "seed", JInt(0)))

\* states the random source may be in when a call starts
PriorSources == {Unseeded, Seeded(7), [seeded |-> TRUE, seed |-> 42, draws |-> 3]}

\* the last two calls both went past validation, so both reseeded the source
BothSeeded == last.exec /\ last.prev.exec /\ Ran("seed") /\ last.rngbefore.seeded

\* C23 as stated: after two executor calls whose documents carry the same
\* seed, the random source is in the same state, so the next value drawn is
\* the same, whatever the source was before and whatever the request ids.
C23_NextDrawBySeedOnly ==
    (BothSeeded /\ DocSeed(last.doc) = DocSeed(last.prev.doc)) => rng = last.rngbefore

\* C23, restated: after two executor calls with the same document that both
\* return, the random source is in the same state (the document's seed, then
\* the jitter draws of its build), whatever the source was before and
\* whatever the request ids and the worlds; and the outcome of a call (world,
\* names, state of the source) that went past validation does not depend on
\* the state the source was in when the call started.
C23_SameDocumentSameDraws ==
    /\ (BothSeeded /\ last.doc = last.prev.doc
            /\ last.result = "returned" /\ last.prev.result = "returned") =>
          /\ rng = last.rngbefore
          /\ rng.seeded /\ rng.seed = DocSeed(last.doc)
    /\ (last.exec /\ last.path = "api" /\ Ran("seed")
            /\ (host \/ last.result = "returned")) =>
          \A r \in PriorSources :
              LET o == execute_scene_spec(last.before, r, host, last.fault, last.doc,
                                          last.req, TRUE, last.cleanup)
              IN  o.w = world /\ o.rng = rng /\ o.name = last.name /\ o.result = last.result

\* the same document was built twice under different request ids, on
\* different worlds, and its build drew jitter from the source
C23_RebuiltWithJitter ==
    /\ host /\ BothSeeded /\ last.doc = last.prev.doc /\ last.req # last.prev.req
    /\ last.result = "returned" /\ last.prev.result = "returned"
    /\ rng.draws > 0 /\ last.before # world

-----------------------------------------------------------------------------
(* Harness of the wall carving: a caller puts doors into a document, then   *)
(* the walls of a structure anchored at a cell are carved.  Lengths are in  *)
(* hundredths of a metre, segment ends in half hundredths.                  *)

\* doors in one document
MaxDoors == 3

\* wall lengths whose opening centres fall on whole half hundredths
WallLengths == {300, 600}

\* a door object with the given grid cell (JNull: none) and properties
DoorObject(gc, props) ==
    LET base == ("id" :> JStr("d")) @@ ("type" :> JStr("door")) @@ ("properties" :> JObj(props))
    IN  JObj(IF gc = JNull THEN base ELSE base @@ ("grid_cell" :> gc))

South == "direction" :> JStr("south")

\* the doors a caller may add around a structure anchored at cell a
DoorPalette(a) ==
    {DoorObject(GridCell(a[1], a[2]), South @@ ("width_m" :> JFloat(w))) : w \in {30, 90, 150, 700}}
    \cup {DoorObject(GridCell(a[1], a[2]), South @@ ("width_cells" :> JInt(1))),
          DoorObject(GridCell(a[1], a[2]), South),
          DoorObject(GridCell(a[1], a[2]), "direction" :> JStr("north")),
          DoorObject(GridCell(a[1], a[2]), "direction" :> JStr("up")),
          DoorObject(GridCell(a[1], a[2]), "width_m" :> JFloat(90)),
          DoorObject(GridCell(a[1] + 1, a[2]), South),
          DoorObject(JNull, South)}

InitW ==
    /\ Idle
    /\ tq \in {[kind |-> "wall", len |-> l, cell |-> 100, anchor |-> a, doors |-> <<>>] :
                  l \in WallLengths, a \in {<<0, 0>>, <<1, 1>>}}
    /\ tres = NoAnswer

\* one more door object in the document
AddDoor(o) ==
    /\ ~tres.called
    /\ Len(tq.doors) < MaxDoors
    /\ tq' = [tq EXCEPT !.doors = Append(@, o)]
    /\ UNCHANGED <<builds, vdoc, vedits, vres, tres, world, rng, host, timers, variants, last, trace, calls>>

\* the four sides of the structure are carved: the solid intervals per side
CarveWalls ==
    /\ ~tres.called
    /\ tres' = [called |-> TRUE,
                segs |-> [side \in Directions |->
                             SideSegs(tq.len, collect_door_map(tq.doors, tq.anchor), side, tq.cell)]]
    /\ UNCHANGED <<builds, vdoc, vedits, vres, tq, world, rng, host, timers, variants, last, trace, calls>>

NextW ==
    \/ \E o \in DoorPalette(tq.anchor) : AddDoor(o)
    \/ CarveWalls

SpecW == InitW /\ [][NextW]_vars

\* the doors of the document that stand at the structure's anchor cell and
\* name the side (no grid_cell: cell (0, 0); no or unknown direction: east)
DoorCellOf(o) ==
    IF Has(o, "grid_cell")
    THEN <<Get(Get(o, "grid_cell"), "col").n, Get(Get(o, "grid_cell"), "row").n>>
    ELSE <<0, 0>>

DoorSideOf(o) ==
    LET p == Get(o, "properties") IN
    IF Has(p, "direction") /\ Get(p, "direction").s \in Directions
    THEN Get(p, "direction").s ELSE "east"

DoorsOnSide(side) ==
    SelectSeq(tq.doors, LAMBDA o : DoorCellOf(o) = tq.anchor /\ DoorSideOf(o) = side)

\* the width a door declares (width_m, else width_cells cells), else the
\* default of 0.9 m
DeclaredWidth(o) ==
    LET p == Get(o, "properties") IN
    IF Has(p, "width_m") THEN Get(p, "width_m").h
    ELSE IF Has(p, "width_cells") THEN Get(p, "width_cells").n * tq.cell
    ELSE 90

\* the sum of the lengths of the segments, in half hundredths
RECURSIVE SegSum(_)
SegSum(segs) == IF segs = <<>> THEN 0 ELSE (segs[1][2] - segs[1][1]) + SegSum(Tail(segs))

\* a side without doors is one segment over [0, L]; a side with one door of
\* width W, 0 < W < L, is two segments around an opening centred at L/2
\* whose lengths sum to L - W
BaseCases(Width(_)) ==
    \A side \in Directions :
        LET ds == DoorsOnSide(side)
            segs == tres.segs[side]
        IN  /\ Len(ds) = 0 => segs = <<<<0, 2 * tq.len>>>>
            /\ (Len(ds) = 1 /\ 0 < Width(ds[1]) /\ Width(ds[1]) < tq.len) =>
                  /\ Len(segs) = 2
                  /\ segs[1][1] = 0 /\ segs[2][2] = 2 * tq.len
                  /\ segs[1][2] + segs[2][1] = 2 * tq.len
                  /\ SegSum(segs) = 2 * (tq.len - Width(ds[1]))

\* C24: carving one wall side of length L: no door on the side gives one
\* solid segment over [0, L]; one door of width W (0 < W < L), W being the
\* width the door declares, gives an opening centred at L/2 and two solid
\* segments whose lengths sum to L - W.
C24_WallBaseCases == tres.called => BaseCases(DeclaredWidth)

\* the same with every width below 0.5 m taken as 0.5 m
ClampedWidth(o) == Max(50, DeclaredWidth(o))

C24_ClampedBaseCases == tres.called => BaseCases(ClampedWidth)

\* the opening intervals of a side, in half hundredths: opening k of n is
\* centred at k * L / (n + 1), as wide as its door, clipped to [0, L]
Openings(side) ==
    LET ds == DoorsOnSide(side) IN
    {<<Max(0, (k * 2 * tq.len) \div (Len(ds) + 1) - ClampedWidth(ds[k])),
       Min(2 * tq.len, (k * 2 * tq.len) \div (Len(ds) + 1) + ClampedWidth(ds[k]))>> :
        k \in 1..Len(ds)}

\* the points where the solid part of a side can begin or end
Breakpoints(side) ==
    {0} \cup {iv[1] : iv \in Openings(side)} \cup {iv[2] : iv \in Openings(side)}
        \cup {tres.segs[side][i][1] : i \in 1..Len(tres.segs[side])}
        \cup {tres.segs[side][i][2] : i \in 1..Len(tres.segs[side])}

\* the stretch [x, x + 1] lies in an interval of the set
Within(x, intervals) == \E iv \in intervals : iv[1] <= x /\ x < iv[2]

\* C25: for any number of doors on a side and any widths, the solid
\* segments are exactly the complement, within [0, L], of the union of the
\* opening intervals: they are pairwise disjoint, none overlaps an opening,
\* and together they cover all of the wall that no opening covers.
C25_SegmentsAreComplement ==
    tres.called =>
        \A side \in Directions :
            LET segs == tres.segs[side]
                solid == {segs[i] : i \in 1..Len(segs)}
            IN  /\ \A i \in 1..Len(segs) : segs[i][1] < segs[i][2]
                /\ \A i \in 1..(Len(segs) - 1) : segs[i][2] < segs[i + 1][1]
                /\ \A x \in {b \in Breakpoints(side) : b < 2 * tq.len} :
                       Within(x, solid) <=> ~Within(x, Openings(side))

\* the same for sides whose openings begin in the order of their centres
OpeningsInOrder(side) ==
    LET ds == DoorsOnSide(side)
        Left(k) == (k * 2 * tq.len) \div (Len(ds) + 1) - ClampedWidth(ds[k])
    IN  \A j, k \in 1..Len(ds) : j < k => Max(0, Left(j)) <= Max(0, Left(k))

-----------------------------------------------------------------------------
(* Materials of the render objects                                          *)

\* the render objects the build creates for document object o: the objects
\* it links into the temp collection (collision hulls go elsewhere)
RenderNames(spec, o) ==
    LET objs == OrEmptyList(GetD(spec, "objects", JArr(<<>>))).a
        t == Lower(StrOf(GetD(o, "type", JStr(""))))
        steps == IF ~IsDungeon(spec) THEN <<ObjStep("Obj_" \o IdOf(o), "temp")>>
                 ELSE IF t = "room" THEN build_dungeon_room(o, CellSize(spec), objs)
                 ELSE IF t = "corridor_segment" THEN build_dungeon_corridor(o, CellSize(spec), objs)
                 ELSE IF t = "door" THEN <<>>
                 ELSE <<ObjStep("Obj_" \o IdOf(o), "temp")>>
    IN  {steps[i].name : i \in {j \in 1..Len(steps) : steps[j].k = "obj" /\ steps[j].cond = "temp"}}

\* the objects to whose mesh the builders append the material of o: the
\* floor of a room and a prop of the dungeon path.  _spawn_wall and the
\* corridor builder append none, and the generic path appends only to a
\* materials list that is already non-empty ("if mats and ..."), which the
\* list of a new mesh is not
MaterialTargets(spec, o) ==
    LET t == Lower(StrOf(GetD(o, "type", JStr(""))))
        gc == OrEmpty(GetD(o, "grid_cell", JEmptyObj))
        c == <<IntOf(GetD(gc, "col", JInt(0))), IntOf(GetD(gc, "row", JInt(0)))>>
    IN  IF ~IsDungeon(spec) THEN {}
        ELSE IF t = "room" THEN {CellName("RoomFloor_", c)}
        ELSE IF t \in {"corridor_segment", "door"} THEN {}
        ELSE {"Obj_" \o IdOf(o)}

\* the objects of document d that name a material the world holds
WithMaterial(d) ==
    LET objs == OrEmptyList(GetD(Docs[d], "objects", JArr(<<>>))).a IN
    {objs[i] : i \in {j \in 1..Len(objs) :
                        /\ Has(objs[j], "material") /\ Get(objs[j], "material").t = "str"
                        /\ Get(objs[j], "material").s \in world.materials}}

\* C26: after a build that returned, every render object created for a
\* document object whose material reference resolves has that material
\* attached: a room's floor and wall segments, a corridor's floor and wall
\* segments, a prop.
C26_MaterialsAttached ==
    (host /\ last.exec /\ last.result = "returned" /\ last.fault = "none") =>
        \A o \in WithMaterial(last.doc) :
            \A n \in RenderNames(Docs[last.doc], o) \cap world.objects :
                n \in MaterialTargets(Docs[last.doc], o)

------------------------------------------------------------------------

-----------------------------------------------------------------------------
(* A rollback that fails                                                    *)

\* how the rollback of a failed build goes: "done" (it completes), "undo"
\* (bpy.ops.ed.undo() raises, the cleanup completes), "entry" (the cleanup
\* raises before it removed anything), "temp" (it raises after the temp
\* collection went, before the snapshot diff)
RollbackEnds == {"done", "undo", "entry", "temp"}

\* the world a rollback leaves that got as far as reached
RolledBack(w, pre, temp, reached) ==
    CASE reached \in {"done", "undo"} -> cleanup_new_datablocks(w, pre, temp)
      [] reached = "temp" -> CleanupTempCollection(w, temp)
      [] OTHER -> w

\* an except clause in which an error of the cleanup takes the place of the
\* error of the build
ExceptCleanupErrorWins(pre, req, temp, cleanup_on_failure, b, reached) ==
    Outcome(IF cleanup_on_failure THEN RolledBack(b.w, pre, temp, reached) ELSE b.w,
            b.rng, "raised",
            IF cleanup_on_failure /\ reached \in {"entry", "temp"}
            THEN "CleanupError" ELSE "SpecExecutionError",
            IF cleanup_on_failure /\ reached \in {"entry", "temp"} THEN <<"CleanupError">>
            ELSE <<"[", req, "]", "Execution failed:", b.err>>,
            "", <<"validate_ok", "seed", "snapshot", "build", "rollback">>, b.hit)

\* the except clause of execute_scene_spec (lines 128-142) with a rollback
\* that may itself fail: an error of bpy.ops.ed.undo() is passed over, an
\* error of the cleanup is logged, and SpecExecutionError is raised from the
\* error of the build
ExceptClause(pre, req, temp, cleanup_on_failure, b, reached) ==
    Outcome(IF cleanup_on_failure THEN RolledBack(b.w, pre, temp, reached) ELSE b.w,
            b.rng, "raised", "SpecExecutionError",
            <<"[", req, "]", "Execution failed:", b.err>>, "",
            <<"validate_ok", "seed", "snapshot", "build",
              IF ~cleanup_on_failure THEN "no_cleanup"
              ELSE IF reached \in {"done", "undo"} THEN "rollback" ELSE "rollback_error">>,
            b.hit)

\* execute_scene_spec(spec, request_id, cleanup_on_failure=True) for a
\* document whose build fails, in a host whose undo and cleanup may fail
ExecuteFailing(d, request_id, fault, reached) ==
    /\ calls < MaxCalls
    /\ host /\ Verdict[d] = "ok"
    /\ LET req == ReqOf(request_id)
           temp == make_temp_collection_name(req)
           b == Build(world, fault, ValidateThenSeed(rng, d).rng, d, temp)
       IN  /\ b.err # "none"
           /\ Record("api", "call", TRUE, d, request_id, TRUE, fault, <<>>,
                     ExceptClause(snapshot_datablocks(world), req, temp, TRUE, b, reached))
    /\ calls' = calls + 1
    /\ UNCHANGED <<builds, tq, tres, vdoc, vedits, vres, host, timers, variants>>

InitR == Init /\ host

NextR ==
    \/ \E d \in DocNames, r \in ReqIds, f \in Faults, e \in RollbackEnds :
          ExecuteFailing(d, r, f, e)
    \/ \E d \in DocNames, r \in ReqIds, c \in BOOLEAN : Execute(d, r, TRUE, c, "none")

SpecR == InitR /\ [][NextR]_vars

\* C27: when the build fails, execute raises SpecExecutionError made from
\* the error of the build (request id and the build's error in the message),
\* also when the undo or the cleanup of the rollback itself raises: the
\* cleanup's error never takes its place.
C27_CleanupErrorsNonFatal ==
    (last.exec /\ Ran("build") /\ last.result = "raised") =>
        LET b == Build(last.before, last.fault, ValidateThenSeed(last.rngbefore, last.doc).rng,
                       last.doc, LastTemp)
        IN  /\ b.err # "none"
            /\ last.exc = "SpecExecutionError"
            /\ last.msg = <<"[", ReqOf(last.req), "]", "Execution failed:", b.err>>

\* a build failed, the cleanup raised on its way and left resources behind
C27_CleanupRaised ==
    /\ last.exec /\ last.result = "raised" /\ Ran("rollback_error")
    /\ last.exc = "SpecExecutionError"
    /\ world # last.before

-----------------------------------------------------------------------------
(* Repeated calls of the validator and of the reachability check            *)

\* calls repeated on one document
MaxRepeats == 2

\* a list a call would share with the calls before it
SharedIssueList(held) == held

\* "issues: list[ValidationIssue] = []" at the start of validate: each call
\* starts from a list of its own, whatever the call before it collected
NewIssueList(held) == <<>>

\* is_spec_traversable(spec) as a caller sees it: what it raises, or
\* (ok, path_len, info)
ReachableOf(spec) ==
    IF ~IsDict(spec) \/ SpecTraversableRaises(spec)
    THEN [called |-> TRUE, raised |-> TRUE]
    ELSE LET r == is_spec_traversable(spec)
             d == extract_grid_dims(spec)
         IN  [called |-> TRUE, raised |-> FALSE, ok |-> r.ok, path |-> r.path,
              info |-> [cols |-> d[1], rows |-> d[2],
                        start |-> default_start_goal(d[1], d[2]).start,
                        goal |-> default_start_goal(d[1], d[2]).goal,
                        blocked_count |-> Cardinality(extract_blocked_from_spec(spec))]]

\* validate_scene_spec(vdoc, expect) once more
ValidateAgain(expect) ==
    /\ vres.called
    /\ calls < MaxRepeats
    /\ calls' = calls + 1
    /\ LET r == validate_scene_spec(vdoc, expect) IN
       vres' = [called |-> TRUE, expect |-> expect, raised |-> r.raised, exc |-> r.exc,
                ok |-> r.ok, issues |-> NewIssueList(vres.issues) \o r.issues]
    /\ UNCHANGED <<builds, tq, tres, vdoc, vedits, world, rng, host, timers, variants, last, trace>>

\* is_spec_traversable(vdoc), a first time or once more
ReachableCall ==
    /\ vres.called
    /\ calls < MaxRepeats
    /\ calls' = calls + 1
    /\ tres' = ReachableOf(vdoc)
    /\ UNCHANGED <<builds, tq, vres, vdoc, vedits, world, rng, host, timers, variants, last, trace>>

\* the defects that leave the grid as small as it is
SmallGridDefects == {d \in Defects : d.sec # "grid"}

NextP ==
    \/ \E i \in 1..Len(RequiredKeys) : RemoveRequired(RequiredKeys[i])
    \/ \E d \in SmallGridDefects : AddDefect(d)
    \/ \E e \in {"1.0.0", "None"} : CallValidate(e)
    \/ \E e \in {"1.0.0", "None"} : ValidateAgain(e)
    \/ ReachableCall

SpecP == InitV /\ [][NextP]_vars

\* a step in which one of the two functions was called
CallStep == vres' # vres \/ tres' # tres \/ calls' # calls

-----------------------------------------------------------------------------
(* The doors that open a wall                                               *)

\* the centre of opening k of the side, in half hundredths
OpeningCentre(side, k) == (k * 2 * tq.len) \div (Len(DoorsOnSide(side)) + 1)

\* C29: the openings of a structure anchored at cell (c, r) are those of the
\* doors whose grid_cell is (c, r) (no grid_cell: (0, 0)), each on the side
\* its direction names (none or an unknown one: east): the wall is open at
\* the place of every such door, it is solid wherever no such door has its
\* opening, and doors of other cells carve nothing.
C29_OpeningsFromOwnDoors ==
    tres.called =>
        \A side \in Directions :
            LET segs == tres.segs[side]
                solid == {segs[i] : i \in 1..Len(segs)}
                stretches == {b \in Breakpoints(side) : b < 2 * tq.len}
            IN  /\ \A k \in 1..Len(DoorsOnSide(side)) :
                       \A iv \in solid :
                           ~(iv[1] <= OpeningCentre(side, k) /\ OpeningCentre(side, k) <= iv[2])
                /\ \A x \in stretches : ~Within(x, Openings(side)) => Within(x, solid)
                /\ OpeningsInOrder(side) =>
                       \A x \in stretches : Within(x, solid) <=> ~Within(x, Openings(side))

\* walls of a structure at (0, 0) were carved with a door without grid_cell,
\* a door of the neighbouring cell and a door of an unknown direction in the
\* document: the first opened the south wall, the last the east wall
C29_ForeignDoorsPresent ==
    /\ tres.called /\ tq.anchor = <<0, 0>>
    /\ \E i, j, k \in 1..Len(tq.doors) :
          /\ tq.doors[i] = DoorObject(JNull, South)
          /\ tq.doors[j] = DoorObject(GridCell(1, 0), South)
          /\ tq.doors[k] = DoorObject(GridCell(0, 0), "direction" :> JStr("up"))
    /\ Len(tres.segs["south"]) = 2
    /\ Len(tres.segs["east"]) = 2
    /\ Len(tres.segs["north"]) = 1

-----------------------------------------------------------------------------
(* The provider client's circuit breaker.  tq holds the breaker (and        *)
(* whether reset_timeout_sec has passed since it opened), tres what the     *)
(* last get_scene_spec call returned and how many HTTP 5xx/429 responses    *)
(* arrived since the last successful attempt.                               *)

\* CircuitBreaker(failure_threshold=3, ...) of LLMInterface.__init__
failure_threshold == 3

\* max_retries=3 of the get_scene_spec call
max_retries == 3

\* failures counted at most
MaxFailures == 24

\* what one HTTP attempt can meet: a timeout, or a response with a status
AttemptOutcomes ==
    {[kind |-> "timeout", status |-> 0]}
        \cup {[kind |-> "http", status |-> s] : s \in {200, 400, 429, 500, 503}}

NewBreaker == [failures |-> 0, state |-> "closed", waited |-> FALSE]

on_success(b) == [b EXCEPT !.failures = 0, !.state = "closed"]

on_failure(b) ==
    IF b.failures + 1 >= failure_threshold
    THEN [b EXCEPT !.failures = b.failures + 1, !.state = "open", !.waited = FALSE]
    ELSE [b EXCEPT !.failures = b.failures + 1]

on_http_error(b, status_code) ==
    IF status_code >= 500 \/ status_code = 429 THEN on_failure(b) ELSE b

\* can_request(): the answer and the breaker after it
can_request(b) ==
    IF b.state = "open"
    THEN (IF b.waited THEN [allow |-> TRUE, b |-> [b EXCEPT !.state = "half-open"]]
                      ELSE [allow |-> FALSE, b |-> b])
    ELSE [allow |-> TRUE, b |-> b]

\* do_call() of get_scene_spec on one attempt outcome
do_call(b, out) ==
    IF out.kind = "timeout" THEN [b |-> b, exc |-> "ProviderError"]
    ELSE IF out.status >= 500
    THEN [b |-> on_http_error(b, out.status), exc |-> "ProviderError"]
    ELSE IF out.status = 429
    THEN [b |-> on_http_error(b, out.status), exc |-> "RateLimitError"]
    ELSE IF out.status # 200 THEN [b |-> b, exc |-> "ProviderError"]
    ELSE [b |-> b, exc |-> "none"]

\* _retry_with_backoff_jitter(do_call, max_retries, on_success, on_failure)
\* from the given attempt on
RECURSIVE retry_with_backoff_jitter(_, _, _)
retry_with_backoff_jitter(b, outs, attempt) ==
    LET r == do_call(b, outs[attempt]) IN
    IF r.exc = "none"
    THEN [b |-> on_success(r.b), result |-> "ok", attempts |-> attempt]
    ELSE IF attempt = max_retries
    THEN [b |-> on_failure(r.b), result |-> r.exc, attempts |-> attempt]
    ELSE retry_with_backoff_jitter(on_failure(r.b), outs, attempt + 1)

\* the HTTP 5xx/429 responses since the last successful attempt, after the
\* first n of the attempts
RECURSIVE ServerErrorsSince(_, _, _)
ServerErrorsSince(count, outs, n) ==
    IF n = 0 THEN count
    ELSE LET before == ServerErrorsSince(count, outs, n - 1)
             o == outs[n]
         IN  IF o.kind = "http" /\ o.status = 200 THEN 0
             ELSE IF o.kind = "http" /\ (o.status >= 500 \/ o.status = 429) THEN before + 1
             ELSE before

NoReply == [called |-> FALSE, result |-> "none", attempts |-> 0, server_errors |-> 0]

InitB ==
    /\ Idle
    /\ tq = NewBreaker
    /\ tres = NoReply

\* get_scene_spec(prompt) with a configured key: rate limiter, breaker, then
\* the retried call
get_scene_spec(limiter_allows, outs) ==
    /\ tq.failures + 2 * max_retries <= MaxFailures
    /\ IF ~limiter_allows
       THEN /\ tq' = tq
            /\ tres' = [tres EXCEPT !.called = TRUE, !.result = "RateLimitError", !.attempts = 0]
       ELSE LET c == can_request(tq) IN
            IF ~c.allow
            THEN /\ tq' = c.b
                 /\ tres' = [tres EXCEPT !.called = TRUE, !.result = "CircuitOpenError",
                                         !.attempts = 0]
            ELSE LET r == retry_with_backoff_jitter(c.b, outs, 1) IN
                 /\ tq' = r.b
                 /\ tres' = [called |-> TRUE, result |-> r.result, attempts |-> r.attempts,
                             server_errors |->
                                 ServerErrorsSince(tres.server_errors, outs, r.attempts)]
    /\ UNCHANGED <<builds, vdoc, vedits, vres, world, rng, host, timers, variants, last, trace, calls>>

\* reset_timeout_sec passes while the breaker is open
ResetTimeoutPasses ==
    /\ tq.state = "open" /\ ~tq.waited
    /\ tq' = [tq EXCEPT !.waited = TRUE]
    /\ UNCHANGED <<builds, vdoc, vedits, vres, tres, world, rng, host, timers, variants, last, trace, calls>>

NextB ==
    \/ \E a \in BOOLEAN, outs \in [1..max_retries -> AttemptOutcomes] : get_scene_spec(a, outs)
    \/ ResetTimeoutPasses

SpecB == InitB /\ [][NextB]_vars

\* C30: the breaker is open only if at least failure_threshold HTTP 5xx/429
\* responses were received since the last success: timeouts and other
\* failures neither count nor open it.
C30_OpenOnlyAfterServerErrors ==
    tq.state = "open" => tres.server_errors >= failure_threshold

====
